---- MODULE Spec2Model ----
(***************************************************************************)
(* The arena-football programs of src/bouncingball2.py (futbol 1.2, 1.3    *)
(* and 1.4): two disks in a circular arena, a rotating goal zone on the    *)
(* wall, a two-half match clock and a score ledger.                        *)
(*                                                                         *)
(* One behaviour of the model is one run of one of the three programs; the *)
(* variable "variant" says which.  One iteration of the program's main     *)
(* loop is four or five steps of the model, and "pc" is the place in the   *)
(* loop body: the timer block, the physics, the goal check of ball1, the   *)
(* goal check of ball2, the state-transition block.  The drawing code      *)
(* changes no program state and is left out, and so is the window-close    *)
(* event, which only ends the loop.                                        *)
(*                                                                         *)
(* Numbers.  The programs compute in floating point; the model computes in *)
(* fixed point.  A length is an integer number of 1/PS pixel, a velocity   *)
(* component an integer number of 1/VS pixel per frame, a unit-vector      *)
(* component an integer number of 1/NS, an angle an integer number of 1/AS *)
(* radian.  Division and square root round to the nearest integer.  Every  *)
(* intermediate value stays below 2^31.                                    *)
(*                                                                         *)
(* Random numbers.  The draws made while the program is set up (injury     *)
(* times, first positions, first velocity signs) are choices of Init.  The *)
(* draws made later (after a goal, at half time) come from a generator     *)
(* whose state "rng" is seeded by Init, as Python's generator is seeded    *)
(* when the interpreter starts.                                            *)
(***************************************************************************)
EXTENDS Integers, Sequences, FiniteSets, TLC

\* ------------------------------------------------------------ fixed point

PS == 10 * 10       \* length units per pixel
VPP == 5 * 10       \* velocity units per length unit
VS == PS * VPP      \* velocity units per pixel-per-frame
NS == 10 * 1000     \* units of a unit-vector component
AS == 10 * 1000     \* angle units per radian

Abs(a) == IF a < 0 THEN -a ELSE a

Max(a, b) == IF a >= b THEN a ELSE b

Min(a, b) == IF a <= b THEN a ELSE b

\* a / b rounded to the nearest integer (b > 0), halves away from zero
Div(a, b) == IF a >= 0 THEN (a + b \div 2) \div b ELSE -((b \div 2 - a) \div b)

\* Newton's iteration for the integer square root, from a guess g >= sqrt(n)
RECURSIVE NewtonSqrt(_, _)
NewtonSqrt(n, g) ==
    LET h == (g + n \div g) \div 2
    IN  IF h >= g THEN g ELSE NewtonSqrt(n, h)

\* floor(sqrt(n)), n >= 0; the first guess is a power of two above the root
FloorSqrt(n) ==
    IF n < 2 THEN n
    ELSE NewtonSqrt(n, IF n < 256 THEN 16
                       ELSE IF n < 65536 THEN 256
                       ELSE IF n < 1048576 THEN 1024
                       ELSE IF n < 16777216 THEN 4096
                       ELSE IF n < 268435456 THEN 16384
                       ELSE 46341)

\* sqrt(n) rounded to the nearest integer
ISqrt(n) == LET s == FloorSqrt(n) IN IF n - s * s > s THEN s + 1 ELSE s

\* math.hypot(dx, dy).  Arguments of 32768 units and more are taken in
\* sixteenths so that the squares stay below 2^31; no distance inside the
\* arena is that long.
Hypot(dx, dy) ==
    LET a == Abs(dx)
        b == Abs(dy)
    IN  IF Max(a, b) < 32768 THEN ISqrt(a * a + b * b)
        ELSE 16 * ISqrt((a \div 16) * (a \div 16) + (b \div 16) * (b \div 16))

\* math.pi and its multiples, in angle units
Pi == 31416
TwoPi == 2 * Pi
HalfPi == Pi \div 2

\* atan(z / NS) for 0 <= z <= NS, in angle units: an odd polynomial of degree
\* nine, within 0.0003 radian of the arc tangent
AtanPoly(z) ==
    LET z2 == Div(z * z, NS)
        p4 == -851 + Div(z2 * 208, NS)
        p3 == 1801 + Div(z2 * p4, NS)
        p2 == -3303 + Div(z2 * p3, NS)
        p1 == 9999 + Div(z2 * p2, NS)
    IN  Div(z * p1, NS)

\* math.atan2(y, x), in angle units, in (-Pi, Pi]
Atan2(y, x) ==
    LET ax == Abs(x)
        ay == Abs(y)
        a  == IF ax >= ay THEN AtanPoly(Div(ay * NS, ax))
                          ELSE HalfPi - AtanPoly(Div(ax * NS, ay))
    IN  IF ax = 0 /\ ay = 0 THEN 0
        ELSE IF x >= 0 THEN (IF y >= 0 THEN a ELSE -a)
        ELSE (IF y >= 0 THEN Pi - a ELSE a - Pi)

\* ------------------------------------------------------- random generator

\* the generator's next state (a 16-bit linear congruential generator)
NextRng(r) == (r * 25173 + 13849) % 65536

\* the number below n that a generator state stands for (its high bits)
Below(r, n) == (r * n) \div 65536

\* ------------------------------------------------------------ the programs

VARIABLES
    variant,             \* which program runs: "1.2", "1.3" or "1.4"
    pc,                  \* the place in the main loop's body
    state,               \* the match clock's state
    frame_counter,       \* frames played in the current half
    added_time_1,        \* injury time of the first half, in minutes
    added_time_2,        \* injury time of the second half, in minutes
    display_added_time,  \* the clock shows injury time
    sim_minute,          \* the match minute
    score1, score2,      \* the two teams' scores
    goal_angle,          \* the centre angle of the goal zone
    goal_rotating,       \* the goal zone rotates (after the first goal)
    diff,                \* the angle last found between a ball and the goal
    goll_timer,          \* frames left of the goal banner (futbol 1.4)
    goal_events_1,       \* team 1's goal times (futbol 1.4)
    goal_events_2,       \* team 2's goal times (futbol 1.4)
    ball1, ball2,        \* the two disks: records x, y, vx, vy
    rng,                 \* the random generator's state
    frame_goals,         \* history: goals recorded since the loop body began
    bodies,              \* the three bodies of futbol 1.5 and 2.1
    checked,             \* history: the pairs a collision pass has examined
    score_team1,         \* team 1's score (futbol 2.1)
    score_team2,         \* team 2's score (futbol 2.1)
    match_time,          \* loop iterations played (futbol 2.1)
    goal_timer,          \* loop iterations left of the goal pause (futbol 2.1)
    ball_x, ball_y,      \* the caged ball's place (bouncing_ball.py)
    vel_x, vel_y,        \* the caged ball's velocity (bouncing_ball.py)
    frames,              \* history: frames the caged ball has lived
    twin,                \* a second run of the program, waiting for its turn
    turn                 \* the run that has its turn: 1 or 2

vars == <<variant, pc, state, frame_counter, added_time_1, added_time_2,
          display_added_time, sim_minute, score1, score2, goal_angle,
          goal_rotating, diff, goll_timer, goal_events_1, goal_events_2,
          ball1, ball2, rng, frame_goals, bodies, checked,
          score_team1, score_team2, match_time, goal_timer,
          ball_x, ball_y, vel_x, vel_y, frames, twin, turn>>

twinVars == <<twin, turn>>

\* the game state of futbol 2.1's FootballSim
simVars == <<score_team1, score_team2, match_time, goal_timer>>

\* the ball of bouncing_ball.py
cageVars == <<ball_x, ball_y, vel_x, vel_y, frames>>

clockVars == <<state, frame_counter, display_added_time, sim_minute>>

ledgerVars == <<score1, score2, goal_events_1, goal_events_2>>

\* futbol 1.2, 1.3 and 1.4 have two balls and no list of bodies
passVars == <<bodies, checked>>

WIDTH == 600
HEIGHT == 800
FRAMES_PER_SIM_MINUTE == 30

ARENA_RADIUS == 260 * PS

BALL_RADIUS == IF variant = "1.4" THEN 40 * PS ELSE 30 * PS

\* 0.35 radian, in futbol 1.4 0.30
GOAL_WIDTH_RADIANS == IF variant = "1.4" THEN 3000 ELSE 3500

\* 4.5, 5 and 5.5 pixels per frame
SPEED == IF variant = "1.2" THEN 9 * (VS \div 2)
         ELSE IF variant = "1.3" THEN 5 * VS
         ELSE 11 * (VS \div 2)

\* 0.005 pixel per frame per frame, in futbol 1.4 none
GRAVITY == IF variant = "1.3" THEN 5 * (VS \div 1000) ELSE 0

\* the three retention factors, each as <<numerator, denominator>>
BOUNCE_DAMPING == IF variant = "1.3" THEN <<995, 1000>> ELSE <<9995, 10000>>

FRICTION == IF variant = "1.3" THEN <<995, 1000>> ELSE <<9999, 10000>>

\* futbol 1.4's 0.999999999999 is 1 at the model's resolution
ELASTICITY == IF variant = "1.3" THEN <<95, 100>> ELSE <<1, 1>>

center_x == (WIDTH \div 2) * PS
center_y == (HEIGHT \div 2) * PS

\* 0.015 radian per frame
goal_rot_speed == 150

\* the width of the band along the wall in which a goal is looked for
GOAL_BAND == IF variant = "1.2" THEN 5 * PS ELSE 10 * PS

Ball(px, py, pvx, pvy) == [x |-> px, y |-> py, vx |-> pvx, vy |-> pvy]

\* random.choice([-SPEED, SPEED]) read off the generator state r
choice(r) == IF Below(r, 2) = 0 THEN -SPEED ELSE SPEED

\* a faulty form of get_random_spawn, the first point drawn returned without
\* the test: C27 must tell the two apart
get_random_spawn_Untested(r) ==
    LET r1 == NextRng(r)
        r2 == NextRng(r1)
    IN  [x |-> center_x + (Below(r1, 301) - 150) * PS,
         y |-> center_y + (Below(r2, 251) - 200) * PS,
         rng |-> r2]

\* get_random_spawn: draw points of the 301 x 251 pixel grid until one lies
\* inside the arena with a margin; the point and the generator's state after
RECURSIVE get_random_spawn(_)
get_random_spawn(r) ==
    LET r1 == NextRng(r)
        r2 == NextRng(r1)
        rx == center_x + (Below(r1, 301) - 150) * PS
        ry == center_y + (Below(r2, 251) - 200) * PS
    IN  IF Hypot(rx - center_x, ry - center_y) < ARENA_RADIUS - BALL_RADIUS - 10 * PS
        THEN [x |-> rx, y |-> ry, rng |-> r2]
        ELSE get_random_spawn(r2)

\* Ball.move of futbol 1.2
move_1_2(b) ==
    Ball(b.x + Div(b.vx, VPP), b.y + Div(b.vy, VPP), b.vx, b.vy)

\* Ball.move of futbol 1.3 and 1.4: gravity, friction, then the step
move(b) ==
    LET vx1 == Div(b.vx * FRICTION[1], FRICTION[2])
        vy1 == Div((b.vy + GRAVITY) * FRICTION[1], FRICTION[2])
    IN  Ball(b.x + Div(vx1, VPP), b.y + Div(vy1, VPP), vx1, vy1)

\* a faulty form of WallBounce, the ball pushed back by half the overlap
\* only: C13 must tell the two apart
WallBounce_HalfPush(b, reflectInward, damp) ==
    LET dx == b.x - center_x
        dy == b.y - center_y
        dist == Hypot(dx, dy)
        nx == Div(dx * NS, dist)
        ny == Div(dy * NS, dist)
        dot == Div(b.vx * nx + b.vy * ny, NS)
        mirrored == reflectInward \/ dot > 0
        overlap == (dist + BALL_RADIUS) - ARENA_RADIUS
    IN  IF dist + BALL_RADIUS >= ARENA_RADIUS
        THEN Ball(b.x - Div(nx * overlap, 2 * NS),
                  b.y - Div(ny * overlap, 2 * NS),
                  IF mirrored
                  THEN Div((b.vx - Div(dot * nx, NS \div 2)) * damp[1], damp[2])
                  ELSE b.vx,
                  IF mirrored
                  THEN Div((b.vy - Div(dot * ny, NS \div 2)) * damp[1], damp[2])
                  ELSE b.vy)
        ELSE b

\* the body of collide_wall: reflect is whether the velocity is mirrored,
\* damp the factor the mirrored velocity keeps
WallBounce(b, reflectInward, damp) ==
    LET dx == b.x - center_x
        dy == b.y - center_y
        dist == Hypot(dx, dy)
        nx == Div(dx * NS, dist)
        ny == Div(dy * NS, dist)
        dot == Div(b.vx * nx + b.vy * ny, NS)
        mirrored == reflectInward \/ dot > 0
        overlap == (dist + BALL_RADIUS) - ARENA_RADIUS
    IN  IF dist + BALL_RADIUS >= ARENA_RADIUS
        THEN Ball(b.x - Div(nx * overlap, NS),
                  b.y - Div(ny * overlap, NS),
                  IF mirrored
                  THEN Div((b.vx - Div(dot * nx, NS \div 2)) * damp[1], damp[2])
                  ELSE b.vx,
                  IF mirrored
                  THEN Div((b.vy - Div(dot * ny, NS \div 2)) * damp[1], damp[2])
                  ELSE b.vy)
        ELSE b

\* Ball.collide_wall of futbol 1.2: mirror the velocity, push back inside
collide_wall_1_2(b) == WallBounce(b, TRUE, <<1, 1>>)

\* Ball.collide_wall of futbol 1.3: the same with damping
collide_wall_1_3(b) == WallBounce(b, TRUE, BOUNCE_DAMPING)

\* Ball.collide_wall of futbol 1.4: mirror only an outward velocity
collide_wall_1_4(b) == WallBounce(b, FALSE, BOUNCE_DAMPING)

\* check_collision of futbol 1.2 divides by the distance of the centres
\* without looking at it: coinciding centres raise ZeroDivisionError
ZeroDistance(b1, b2) == Hypot(b2.x - b1.x, b2.y - b1.y) = 0

\* check_collision of futbol 1.2: the two balls after the call
check_collision(b1, b2) ==
    LET dx == b2.x - b1.x
        dy == b2.y - b1.y
        dist == Hypot(dx, dy)
        nx == Div(dx * NS, dist)
        ny == Div(dy * NS, dist)
        dvx == b1.vx - b2.vx
        dvy == b1.vy - b2.vy
        impulse == Div(dvx * nx + dvy * ny, NS)
        overlap == (BALL_RADIUS + BALL_RADIUS) - dist
    IN  IF dist < BALL_RADIUS + BALL_RADIUS /\ ~(impulse > 0)
        THEN <<Ball(b1.x - Div(nx * overlap, 2 * NS),
                    b1.y - Div(ny * overlap, 2 * NS),
                    b1.vx - Div(impulse * nx, NS),
                    b1.vy - Div(impulse * ny, NS)),
               Ball(b2.x + Div(nx * overlap, 2 * NS),
                    b2.y + Div(ny * overlap, 2 * NS),
                    b2.vx + Div(impulse * nx, NS),
                    b2.vy + Div(impulse * ny, NS))>>
        ELSE <<b1, b2>>

\* a faulty form of resolve_collisions, each ball pushed by a quarter of the
\* overlap only: C14 must tell the two apart
resolve_collisions_Soft(b1, b2) ==
    LET dx == b2.x - b1.x
        dy == b2.y - b1.y
        dist0 == Hypot(dx, dy)
        dist == IF dist0 = 0 THEN PS \div 10 ELSE dist0
        nx == Div(dx * NS, dist)
        ny == Div(dy * NS, dist)
        overlap == (BALL_RADIUS + BALL_RADIUS) - dist
        sx == Div(nx * overlap, 4 * NS)
        sy == Div(ny * overlap, 4 * NS)
        dvx == b1.vx - b2.vx
        dvy == b1.vy - b2.vy
        vel_normal == Div(dvx * nx + dvy * ny, NS)
        j == Div(-(ELASTICITY[2] + ELASTICITY[1]) * vel_normal, 2 * ELASTICITY[2])
    IN  IF dist0 < BALL_RADIUS + BALL_RADIUS
        THEN IF vel_normal > 0
             THEN <<Ball(b1.x - sx, b1.y - sy, b1.vx, b1.vy),
                    Ball(b2.x + sx, b2.y + sy, b2.vx, b2.vy)>>
             ELSE <<Ball(b1.x - sx, b1.y - sy,
                         b1.vx + Div(j * nx, NS), b1.vy + Div(j * ny, NS)),
                    Ball(b2.x + sx, b2.y + sy,
                         b2.vx - Div(j * nx, NS), b2.vy - Div(j * ny, NS))>>
        ELSE <<b1, b2>>

\* a faulty form of resolve_collisions, the impulse given whatever the sign
\* of vel_normal: C22 must tell the two apart
resolve_collisions_Always(b1, b2) ==
    LET dx == b2.x - b1.x
        dy == b2.y - b1.y
        dist0 == Hypot(dx, dy)
        dist == IF dist0 = 0 THEN PS \div 10 ELSE dist0
        nx == Div(dx * NS, dist)
        ny == Div(dy * NS, dist)
        overlap == (BALL_RADIUS + BALL_RADIUS) - dist
        sx == Div(nx * overlap, 2 * NS)
        sy == Div(ny * overlap, 2 * NS)
        dvx == b1.vx - b2.vx
        dvy == b1.vy - b2.vy
        vel_normal == Div(dvx * nx + dvy * ny, NS)
        j == Div(-(ELASTICITY[2] + ELASTICITY[1]) * vel_normal, 2 * ELASTICITY[2])
    IN  IF dist0 < BALL_RADIUS + BALL_RADIUS
        THEN <<Ball(b1.x - sx, b1.y - sy,
                    b1.vx + Div(j * nx, NS), b1.vy + Div(j * ny, NS)),
               Ball(b2.x + sx, b2.y + sy,
                    b2.vx - Div(j * nx, NS), b2.vy - Div(j * ny, NS))>>
        ELSE <<b1, b2>>

\* resolve_collisions of futbol 1.3 and 1.4: separate first, then bounce
resolve_collisions(b1, b2) ==
    LET dx == b2.x - b1.x
        dy == b2.y - b1.y
        dist0 == Hypot(dx, dy)
        dist == IF dist0 = 0 THEN PS \div 10 ELSE dist0
        nx == Div(dx * NS, dist)
        ny == Div(dy * NS, dist)
        overlap == (BALL_RADIUS + BALL_RADIUS) - dist
        sx == Div(nx * overlap, 2 * NS)
        sy == Div(ny * overlap, 2 * NS)
        dvx == b1.vx - b2.vx
        dvy == b1.vy - b2.vy
        vel_normal == Div(dvx * nx + dvy * ny, NS)
        j == Div(-(ELASTICITY[2] + ELASTICITY[1]) * vel_normal, 2 * ELASTICITY[2])
    IN  IF dist0 < BALL_RADIUS + BALL_RADIUS
        THEN IF vel_normal > 0
             THEN <<Ball(b1.x - sx, b1.y - sy, b1.vx, b1.vy),
                    Ball(b2.x + sx, b2.y + sy, b2.vx, b2.vy)>>
             ELSE <<Ball(b1.x - sx, b1.y - sy,
                         b1.vx + Div(j * nx, NS), b1.vy + Div(j * ny, NS)),
                    Ball(b2.x + sx, b2.y + sy,
                         b2.vx - Div(j * nx, NS), b2.vy - Div(j * ny, NS))>>
        ELSE <<b1, b2>>

\* one pass of futbol 1.4's solver loop over the pair bb
SolverPass(bb) ==
    resolve_collisions(collide_wall_1_4(bb[1]), collide_wall_1_4(bb[2]))

\* a faulty form of the solver loop, ended after its first pass: C26 must
\* tell the two apart
Solver_OnePass(bb, n) == IF n = 0 THEN bb ELSE SolverPass(bb)

\* the solver loop: n passes; a pass that changes nothing ends it, for the
\* passes after it would change nothing either
RECURSIVE Solver(_, _)
Solver(bb, n) ==
    LET after == SolverPass(bb)
    IN  IF n = 0 \/ after = bb THEN bb ELSE Solver(after, n - 1)

\* a faulty form of Wrap, the angle left as it is: C15 must tell the two
\* apart
Wrap_Never(d) == d

\* while diff > math.pi: diff = abs(diff - 2*math.pi)
RECURSIVE Wrap(_)
Wrap(d) == IF d > Pi THEN Wrap(Abs(d - TwoPi)) ELSE d

\* the angle of a ball seen from the arena's centre
ball_ang(b) == Atan2(b.y - center_y, b.x - center_x)

\* diff of futbol 1.2's goal detection
diff_1_2(b) == Wrap(Abs(ball_ang(b) - goal_angle))

\* diff of futbol 1.3's and 1.4's: both angles are normalised first
diff_1_3(b) == Wrap(Abs((ball_ang(b) % TwoPi) - (goal_angle % TwoPi)))

\* the two tests of the goal detection: near the wall, inside the goal's arc
NearWall(b) ==
    Hypot(b.x - center_x, b.y - center_y) > ARENA_RADIUS - BALL_RADIUS - GOAL_BAND

\* diff after the goal check of ball b: it is computed for a ball near the
\* wall only
AngleFound(b) ==
    IF NearWall(b)
    THEN (IF variant = "1.2" THEN diff_1_2(b) ELSE diff_1_3(b))
    ELSE diff

IsGoal(b) ==
    /\ NearWall(b)
    /\ (IF variant = "1.2" THEN diff_1_2(b) ELSE diff_1_3(b)) < GOAL_WIDTH_RADIANS \div 2

\* ------------------------------------------------------------------ setup

Active == {"FIRST_HALF", "SECOND_HALF"}

\* the state futbol 1.4 assigns when the first half ends (line 1276)
DEVRE_ARASI == "Devre arasi"

\* a place get_random_spawn can return: whole pixels dx, dy from the centre
SpawnPlace(dx, dy) ==
    /\ dx \in -150 .. 150
    /\ dy \in -200 .. 50
    /\ Hypot(dx * PS, dy * PS) < ARENA_RADIUS - BALL_RADIUS - 10 * PS

\* The program's state when its main loop begins: v the program, a1 and a2
\* the injury times drawn, p1 and p2 the balls' places (pixels from the
\* centre), s the signs of the four velocity components, seed the generator
\* FootballSim.__init__'s game state; futbol 1.2, 1.3 and 1.4 have none
NoMatch ==
    /\ score_team1 = 0
    /\ score_team2 = 0
    /\ match_time = 0
    /\ goal_timer = 0

\* the futbol programs have no caged ball
NoCage ==
    /\ ball_x = 0
    /\ ball_y = 0
    /\ vel_x = 0
    /\ vel_y = 0
    /\ frames = 0

Setup(v, a1, a2, p1, p2, s, seed) ==
    /\ variant = v
    /\ NoMatch
    /\ NoCage
    /\ pc = "timer"
    /\ state = "FIRST_HALF"
    /\ frame_counter = 0
    /\ added_time_1 = a1
    /\ added_time_2 = a2
    /\ display_added_time = FALSE
    /\ sim_minute = 0
    /\ score1 = 0
    /\ score2 = 0
    /\ goal_angle = HalfPi
    /\ goal_rotating = FALSE
    /\ diff = 0
    /\ goll_timer = 0
    /\ goal_events_1 = <<>>
    /\ goal_events_2 = <<>>
    /\ IF v = "1.2"
       THEN p1 = <<-60, 0>> /\ p2 = <<60, 0>>
       ELSE SpawnPlace(p1[1], p1[2]) /\ SpawnPlace(p2[1], p2[2])
    /\ ball1 = Ball(center_x + p1[1] * PS, center_y + p1[2] * PS,
                    s[1] * SPEED, s[2] * SPEED)
    /\ ball2 = Ball(center_x + p2[1] * PS, center_y + p2[2] * PS,
                    s[3] * SPEED, s[4] * SPEED)
    /\ rng = seed
    /\ frame_goals = 0
    /\ bodies = <<>>
    /\ checked = <<>>

\* ---------------------------------------------------------------- actions

\* a faulty form of the test below, one minute late: C7 must tell the two apart
FirstHalfOver_Late(m) == m > 45 + added_time_1

\* the test that ends the first half, on the minute m
FirstHalfOver(m) == m >= 45 + added_time_1

\* the test that ends the second half, on the minute m
SecondHalfOver(m) == m >= 90 + added_time_2

\* a faulty form of TimerLogic, the injury-time flag raised a minute late:
\* C18 must tell the two apart
TimerLogic_LateFlag(hf) ==
    LET total_mins_played == (frame_counter + 1) \div FRAMES_PER_SIM_MINUTE
    IN  /\ frame_counter' = frame_counter + 1
        /\ IF state = "FIRST_HALF"
           THEN /\ sim_minute' = total_mins_played
                /\ display_added_time' = (total_mins_played > 45)
                /\ state' = IF FirstHalfOver(total_mins_played) THEN hf ELSE state
           ELSE /\ sim_minute' = 45 + total_mins_played
                /\ display_added_time' = (45 + total_mins_played > 90)
                /\ state' = IF SecondHalfOver(45 + total_mins_played)
                            THEN "FULLTIME" ELSE state

\* the timer block's body (lines 550-574): hf is the state the end of the
\* first half assigns
TimerLogic(hf) ==
    LET total_mins_played == (frame_counter + 1) \div FRAMES_PER_SIM_MINUTE
    IN  /\ frame_counter' = frame_counter + 1
        /\ IF state = "FIRST_HALF"
           THEN /\ sim_minute' = total_mins_played
                /\ display_added_time' = (total_mins_played >= 45)
                /\ state' = IF FirstHalfOver(total_mins_played) THEN hf ELSE state
           ELSE /\ sim_minute' = 45 + total_mins_played
                /\ display_added_time' = (45 + total_mins_played >= 90)
                /\ state' = IF SecondHalfOver(45 + total_mins_played)
                            THEN "FULLTIME" ELSE state

\* futbol 1.2, "1. Timer Logic"; the physics has a test of its own
Timer_1_2 ==
    /\ variant = "1.2"
    /\ pc = "timer"
    /\ IF state \in Active THEN TimerLogic("HALFTIME") ELSE UNCHANGED clockVars
    /\ pc' = "physics"
    /\ frame_goals' = 0
    /\ UNCHANGED <<variant, twinVars, simVars, cageVars, passVars, diff,
                   added_time_1, added_time_2, ledgerVars, goal_angle,
                   goal_rotating, goll_timer, ball1, ball2, rng>>

\* futbol 1.3: the timer and the physics are one block under one test
Timer_1_3 ==
    /\ variant = "1.3"
    /\ pc = "timer"
    /\ IF state \in Active
       THEN TimerLogic("HALFTIME") /\ pc' = "physics"
       ELSE UNCHANGED clockVars /\ pc' = "trans"
    /\ frame_goals' = 0
    /\ UNCHANGED <<variant, twinVars, simVars, cageVars, passVars, diff,
                   added_time_1, added_time_2, ledgerVars, goal_angle,
                   goal_rotating, goll_timer, ball1, ball2, rng>>

\* futbol 1.4: as 1.3, with another state at the end of the first half
Timer_1_4 ==
    /\ variant = "1.4"
    /\ pc = "timer"
    /\ IF state \in Active
       THEN TimerLogic(DEVRE_ARASI) /\ pc' = "physics"
       ELSE UNCHANGED clockVars /\ pc' = "trans"
    /\ frame_goals' = 0
    /\ UNCHANGED <<variant, twinVars, simVars, cageVars, passVars, diff,
                   added_time_1, added_time_2, ledgerVars, goal_angle,
                   goal_rotating, goll_timer, ball1, ball2, rng>>

\* a faulty form of Rotated, the zone turning before the first goal: C11 must
\* tell the two apart
Rotated_Always == (goal_angle + goal_rot_speed) % TwoPi

\* the goal zone's angle after a frame
Rotated == IF goal_rotating THEN (goal_angle + goal_rot_speed) % TwoPi ELSE goal_angle

\* futbol 1.2, "2. Physics": only in a playing state; each ball moves and
\* meets the wall, then the pair is checked once
Physics_1_2 ==
    /\ variant = "1.2"
    /\ pc = "physics"
    /\ IF state \in Active
       THEN LET w1 == collide_wall_1_2(move_1_2(ball1))
                w2 == collide_wall_1_2(move_1_2(ball2))
            IN  /\ goal_angle' = Rotated
                /\ IF ZeroDistance(w1, w2)
                   THEN /\ ball1' = w1
                        /\ ball2' = w2
                        /\ pc' = "crashed"
                   ELSE /\ ball1' = check_collision(w1, w2)[1]
                        /\ ball2' = check_collision(w1, w2)[2]
                        /\ pc' = "goal1"
       ELSE /\ UNCHANGED <<goal_angle, ball1, ball2>>
            /\ pc' = "trans"
    /\ UNCHANGED <<variant, twinVars, simVars, cageVars, passVars, diff,
                   clockVars, added_time_1, added_time_2, ledgerVars,
                   goal_rotating, goll_timer, rng, frame_goals>>

\* futbol 1.3, "Physics": the pair is resolved twice
Physics_1_3 ==
    /\ variant = "1.3"
    /\ pc = "physics"
    /\ LET w1 == collide_wall_1_3(move(ball1))
           w2 == collide_wall_1_3(move(ball2))
           bb == resolve_collisions(w1, w2)
           cc == resolve_collisions(bb[1], bb[2])
       IN  /\ goal_angle' = Rotated
           /\ ball1' = cc[1]
           /\ ball2' = cc[2]
    /\ pc' = "goal1"
    /\ UNCHANGED <<variant, twinVars, simVars, cageVars, passVars, diff,
                   clockVars, added_time_1, added_time_2, ledgerVars,
                   goal_rotating, goll_timer, rng, frame_goals>>

\* futbol 1.4, "Physics": both balls move, then eight solver passes
Physics_1_4 ==
    /\ variant = "1.4"
    /\ pc = "physics"
    /\ LET bb == Solver(<<move(ball1), move(ball2)>>, 8)
       IN  /\ goal_angle' = Rotated
           /\ goll_timer' = IF goll_timer > 0 THEN goll_timer - 1 ELSE goll_timer
           /\ ball1' = bb[1]
           /\ ball2' = bb[2]
    /\ pc' = "goal1"
    /\ UNCHANGED <<variant, twinVars, simVars, cageVars, passVars, diff,
                   clockVars, added_time_1, added_time_2, ledgerVars,
                   goal_rotating, rng, frame_goals>>

\* the place in the loop body after the goal check of ball i
AfterGoalCheck(i) == IF i = 1 THEN "goal2" ELSE "trans"

\* a faulty form of Scored, the goal counted for the other team: C9 must tell
\* the two apart
Scored_Swapped(i) ==
    /\ score1' = IF i = 1 THEN score1 ELSE score1 + 1
    /\ score2' = IF i = 1 THEN score2 + 1 ELSE score2
    /\ goal_rotating' = IF score1' + score2' >= 1 THEN TRUE ELSE goal_rotating
    /\ frame_goals' = frame_goals + 1

\* a faulty form of Scored, the goal counted for either team: C19 must tell
\* the two apart
Scored_Either(i) ==
    /\ \E k \in 1 .. 2 : /\ score1' = IF k = 1 THEN score1 + 1 ELSE score1
                         /\ score2' = IF k = 1 THEN score2 ELSE score2 + 1
    /\ goal_rotating' = IF score1' + score2' >= 1 THEN TRUE ELSE goal_rotating
    /\ frame_goals' = frame_goals + 1

\* score1, score2 and goal_rotating after a goal of ball i
Scored(i) ==
    /\ score1' = IF i = 1 THEN score1 + 1 ELSE score1
    /\ score2' = IF i = 1 THEN score2 ELSE score2 + 1
    /\ goal_rotating' = IF score1' + score2' >= 1 THEN TRUE ELSE goal_rotating
    /\ frame_goals' = frame_goals + 1

\* futbol 1.2, "Goal Detection", for ball i: a goal puts the goal zone and
\* both balls back and draws four velocity signs
GoalDetection_1_2(i) ==
    /\ variant = "1.2"
    /\ pc = IF i = 1 THEN "goal1" ELSE "goal2"
    /\ pc' = AfterGoalCheck(i)
    /\ diff' = AngleFound(IF i = 1 THEN ball1 ELSE ball2)
    /\ LET r1 == NextRng(rng)
           r2 == NextRng(r1)
           r3 == NextRng(r2)
           r4 == NextRng(r3)
       IN  IF IsGoal(IF i = 1 THEN ball1 ELSE ball2)
           THEN /\ Scored(i)
                /\ goal_angle' = HalfPi
                /\ ball1' = Ball(center_x - 60 * PS, center_y, choice(r1), choice(r2))
                /\ ball2' = Ball(center_x + 60 * PS, center_y, choice(r3), choice(r4))
                /\ rng' = r4
           ELSE UNCHANGED <<score1, score2, goal_rotating, frame_goals,
                            goal_angle, ball1, ball2, rng>>
    /\ UNCHANGED <<variant, twinVars, simVars, cageVars, passVars, clockVars,
                   added_time_1, added_time_2, goll_timer,
                   goal_events_1, goal_events_2>>

\* random.uniform(-6, 6) read off the generator state r, in hundredths
uniform_6(r) == (Below(r, 1201) - 600) * (VS \div 100)

\* futbol 1.3, "Goal Detection", for ball i: a goal respawns both balls at
\* random places and draws four velocity components
GoalDetection_1_3(i) ==
    /\ variant = "1.3"
    /\ pc = IF i = 1 THEN "goal1" ELSE "goal2"
    /\ pc' = AfterGoalCheck(i)
    /\ diff' = AngleFound(IF i = 1 THEN ball1 ELSE ball2)
    /\ LET g1 == get_random_spawn(rng)
           g2 == get_random_spawn(g1.rng)
           r1 == NextRng(g2.rng)
           r2 == NextRng(r1)
           r3 == NextRng(r2)
           r4 == NextRng(r3)
       IN  IF IsGoal(IF i = 1 THEN ball1 ELSE ball2)
           THEN /\ Scored(i)
                /\ ball1' = Ball(g1.x, g1.y, uniform_6(r1), uniform_6(r2))
                /\ ball2' = Ball(g2.x, g2.y, uniform_6(r3), uniform_6(r4))
                /\ rng' = r4
           ELSE UNCHANGED <<score1, score2, goal_rotating, frame_goals,
                            ball1, ball2, rng>>
    /\ UNCHANGED <<variant, twinVars, simVars, cageVars, passVars, clockVars,
                   added_time_1, added_time_2, goal_angle,
                   goll_timer, goal_events_1, goal_events_2>>

\* a faulty form of tempo, the factor drawn between 0.6 and 1.4: C28 must
\* tell the two apart
tempo_Wide(r, q) == Div(choice(r) * (60 + Below(q, 81)), 100)

\* random.choice([-SPEED, SPEED]) * random.uniform(0.8, 1.2) read off the
\* generator states r and q, the factor in hundredths
tempo(r, q) == Div(choice(r) * (80 + Below(q, 41)), 100)

\* a faulty form of Logged, every goal written to team 1's list: C10 must
\* tell the two apart
Logged_Team1(i, time_mark) ==
    /\ goal_events_1' = Append(goal_events_1, time_mark)
    /\ goal_events_2' = goal_events_2

\* the goal lists after a goal of ball i at the time time_mark
Logged(i, time_mark) ==
    /\ goal_events_1' = IF i = 1 THEN Append(goal_events_1, time_mark)
                        ELSE goal_events_1
    /\ goal_events_2' = IF i = 1 THEN goal_events_2
                        ELSE Append(goal_events_2, time_mark)

\* futbol 1.4, "Goal Detection", for ball i: a goal is written to the
\* scorer's list with its time, the scorer goes to the centre, both balls
\* get new velocities
GoalDetection_1_4(i) ==
    /\ variant = "1.4"
    /\ pc = IF i = 1 THEN "goal1" ELSE "goal2"
    /\ pc' = AfterGoalCheck(i)
    /\ diff' = AngleFound(IF i = 1 THEN ball1 ELSE ball2)
    /\ LET r1 == NextRng(rng)
           r2 == NextRng(r1)
           r3 == NextRng(r2)
           r4 == NextRng(r3)
           r5 == NextRng(r4)
           r6 == NextRng(r5)
           r7 == NextRng(r6)
           r8 == NextRng(r7)
           time_mark == <<sim_minute, display_added_time>>
       IN  IF IsGoal(IF i = 1 THEN ball1 ELSE ball2)
           THEN /\ goll_timer' = 90
                /\ Scored(i)
                /\ Logged(i, time_mark)
                /\ ball1' = Ball(IF i = 1 THEN center_x ELSE ball1.x,
                                 IF i = 1 THEN center_y ELSE ball1.y,
                                 tempo(r1, r2), tempo(r3, r4))
                /\ ball2' = Ball(IF i = 1 THEN ball2.x ELSE center_x,
                                 IF i = 1 THEN ball2.y ELSE center_y,
                                 tempo(r5, r6), tempo(r7, r8))
                /\ rng' = r8
           ELSE UNCHANGED <<goll_timer, score1, score2, goal_rotating, frame_goals,
                            goal_events_1, goal_events_2, ball1, ball2, rng>>
    /\ UNCHANGED <<variant, twinVars, simVars, cageVars, passVars, clockVars,
                   added_time_1, added_time_2, goal_angle>>

\* futbol 1.2, "3. State Transitions": half time ends in the iteration it began
Transitions_1_2 ==
    /\ variant = "1.2"
    /\ pc = "trans"
    /\ pc' = "timer"
    /\ IF state = "HALFTIME"
       THEN /\ state' = "SECOND_HALF"
            /\ frame_counter' = 0
            /\ display_added_time' = FALSE
            /\ UNCHANGED sim_minute
       ELSE UNCHANGED clockVars
    /\ UNCHANGED <<variant, twinVars, simVars, cageVars, passVars, diff,
                   added_time_1, added_time_2, ledgerVars, goal_angle,
                   goal_rotating, goll_timer, ball1, ball2, rng, frame_goals>>

\* the state-transition block of futbol 1.3 and 1.4: the second half begins
\* with both balls at random places
KickOff ==
    LET g1 == get_random_spawn(rng)
        g2 == get_random_spawn(g1.rng)
    IN  IF state = "HALFTIME"
        THEN /\ state' = "SECOND_HALF"
             /\ frame_counter' = 0
             /\ display_added_time' = FALSE
             /\ UNCHANGED sim_minute
             /\ ball1' = Ball(g1.x, g1.y, ball1.vx, ball1.vy)
             /\ ball2' = Ball(g2.x, g2.y, ball2.vx, ball2.vy)
             /\ rng' = g2.rng
        ELSE UNCHANGED <<clockVars, ball1, ball2, rng>>

\* futbol 1.3, "STATE TRANSITIONS"
Transitions_1_3 ==
    /\ variant = "1.3"
    /\ pc = "trans"
    /\ pc' = "timer"
    /\ KickOff
    /\ UNCHANGED <<variant, twinVars, simVars, cageVars, passVars, diff,
                   added_time_1, added_time_2, ledgerVars, goal_angle,
                   goal_rotating, goll_timer, frame_goals>>

\* futbol 1.4, "STATE TRANSITIONS"
Transitions_1_4 ==
    /\ variant = "1.4"
    /\ pc = "trans"
    /\ pc' = "timer"
    /\ KickOff
    /\ UNCHANGED <<variant, twinVars, simVars, cageVars, passVars, diff,
                   added_time_1, added_time_2, ledgerVars, goal_angle,
                   goal_rotating, goll_timer, frame_goals>>

Next ==
    \/ Timer_1_2
    \/ Timer_1_3
    \/ Timer_1_4
    \/ Physics_1_2
    \/ Physics_1_3
    \/ Physics_1_4
    \/ \E i \in 1 .. 2 : GoalDetection_1_2(i)
    \/ \E i \in 1 .. 2 : GoalDetection_1_3(i)
    \/ \E i \in 1 .. 2 : GoalDetection_1_4(i)
    \/ Transitions_1_2
    \/ Transitions_1_3
    \/ Transitions_1_4

\* --------------------------------------------------------- specifications

Variants == {"1.2", "1.3", "1.4"}

AllSigns == {<<a, b, c, d>> : a \in {-1, 1}, b \in {-1, 1}, c \in {-1, 1}, d \in {-1, 1}}

\* the signs of the first velocities: all of them for futbol 1.2, which
\* starts from fixed places, four of them for the other two
Signs(v) ==
    IF v = "1.2" THEN AllSigns
    ELSE {<<1, 1, 1, 1>>, <<1, 1, -1, 1>>, <<-1, 1, 1, -1>>, <<1, -1, -1, -1>>}

\* the first places: futbol 1.2's two fixed ones, two of the random ones
Places(v) ==
    IF v = "1.2" THEN {<<-60, 0>>, <<60, 0>>}
    ELSE {<<-150, 50>>, <<100, -100>>}

Seeds == {3}

\* one run of the program, no second run beside it
Alone == twin = <<>> /\ turn = 1

\* Matches of every program from many starts, all with one minute of injury
\* time in the first half and two in the second
Init ==
    \E v \in Variants : \E p1 \in Places(v) : \E p2 \in Places(v) :
        \E s \in Signs(v) : \E seed \in Seeds :
            Setup(v, 1, 2, p1, p2, s, seed) /\ Alone

Spec == Init /\ [][Next]_vars

\* Matches of every program from one start each, with every injury time the
\* programs can draw
ClockInit ==
    \E v \in Variants : \E a1 \in 1 .. 3 : \E a2 \in 2 .. 8 : \E seed \in Seeds :
        Setup(v, a1, a2,
              IF v = "1.2" THEN <<-60, 0>> ELSE <<-150, 50>>,
              IF v = "1.2" THEN <<60, 0>> ELSE <<100, -100>>,
              <<1, 1, 1, 1>>, seed) /\ Alone

ClockSpec == ClockInit /\ [][Next]_vars

\* the loop's control moves on; every step of Next is such a step, and one is
\* possible wherever the program has not crashed
LoopRuns ==
    /\ pc # "crashed"
    /\ pc' \in {"timer", "physics", "goal1", "goal2", "trans", "crashed"}
    /\ pc' # pc

\* The main loop runs without pause: "while running" with nothing that
\* blocks in its body, so its control always moves on
LiveSpec == ClockInit /\ [][Next]_vars /\ WF_pc(LoopRuns)

\* ------------------------------------------------- two runs side by side

\* Two runs of one program, begun in the same state with the generator in
\* the same state.  The variables hold the run that has its turn, twin holds
\* the other; run 1 takes a step of the loop body, then run 2 takes one.

\* the program's state as one value
Snapshot ==
    [variant |-> variant,
     pc |-> pc,
     state |-> state,
     frame_counter |-> frame_counter,
     added_time_1 |-> added_time_1,
     added_time_2 |-> added_time_2,
     display_added_time |-> display_added_time,
     sim_minute |-> sim_minute,
     score1 |-> score1,
     score2 |-> score2,
     goal_angle |-> goal_angle,
     goal_rotating |-> goal_rotating,
     diff |-> diff,
     goll_timer |-> goll_timer,
     goal_events_1 |-> goal_events_1,
     goal_events_2 |-> goal_events_2,
     ball1 |-> ball1,
     ball2 |-> ball2,
     rng |-> rng,
     frame_goals |-> frame_goals,
     bodies |-> bodies,
     checked |-> checked]

\* the generator's states the two runs begin with
TwinSeeds == {3, 7, 4242}

TwinInit ==
    \E v \in Variants : \E seed \in TwinSeeds :
        /\ Setup(v, 1, 2,
                 IF v = "1.2" THEN <<-60, 0>> ELSE <<-150, 50>>,
                 IF v = "1.2" THEN <<60, 0>> ELSE <<100, -100>>,
                 <<1, 1, 1, 1>>, seed)
        /\ twin = Snapshot
        /\ turn = 1

\* the run in the variables may take a step: run 1 when both runs are at the
\* same place of the loop body, run 2 when it is one step behind
InTurn == (turn = 1) <=> (pc = twin.pc)

\* the two runs change places
Swap ==
    /\ ~InTurn
    /\ variant' = twin.variant
    /\ pc' = twin.pc
    /\ state' = twin.state
    /\ frame_counter' = twin.frame_counter
    /\ added_time_1' = twin.added_time_1
    /\ added_time_2' = twin.added_time_2
    /\ display_added_time' = twin.display_added_time
    /\ sim_minute' = twin.sim_minute
    /\ score1' = twin.score1
    /\ score2' = twin.score2
    /\ goal_angle' = twin.goal_angle
    /\ goal_rotating' = twin.goal_rotating
    /\ diff' = twin.diff
    /\ goll_timer' = twin.goll_timer
    /\ goal_events_1' = twin.goal_events_1
    /\ goal_events_2' = twin.goal_events_2
    /\ ball1' = twin.ball1
    /\ ball2' = twin.ball2
    /\ rng' = twin.rng
    /\ frame_goals' = twin.frame_goals
    /\ bodies' = twin.bodies
    /\ checked' = twin.checked
    /\ UNCHANGED <<simVars, cageVars>>
    /\ twin' = Snapshot
    /\ turn' = 3 - turn

TwinNext ==
    \/ InTurn /\ Timer_1_2
    \/ InTurn /\ Timer_1_3
    \/ InTurn /\ Timer_1_4
    \/ InTurn /\ Physics_1_2
    \/ InTurn /\ Physics_1_3
    \/ InTurn /\ Physics_1_4
    \/ InTurn /\ \E i \in 1 .. 2 : GoalDetection_1_2(i)
    \/ InTurn /\ \E i \in 1 .. 2 : GoalDetection_1_3(i)
    \/ InTurn /\ \E i \in 1 .. 2 : GoalDetection_1_4(i)
    \/ InTurn /\ Transitions_1_2
    \/ InTurn /\ Transitions_1_3
    \/ InTurn /\ Transitions_1_4
    \/ Swap

TwinSpec == TwinInit /\ [][TwinNext]_vars

\* -------------------------------------------- the routines on their own

\* The collision routines are also called on their own, each on inputs of a
\* bounded set; pc is "call" before a call and names the routine after it.

\* the places of ball1, in pixels from the arena's centre: at the centre,
\* inside, short of the wall, on it and beyond it, in several directions
CallPlaces ==
    {<<0, 0>>, <<100, 0>>, <<215, 0>>, <<220, 0>>, <<225, 0>>, <<230, 0>>,
     <<236, 0>>, <<-230, 0>>, <<0, 231>>, <<0, -221>>, <<160, 160>>,
     <<163, 163>>, <<-150, 180>>, <<155, -170>>}

\* the velocities of ball1, in tenths of a pixel per frame
CallVelocities ==
    {<<0, 0>>, <<50, 0>>, <<-50, 0>>, <<0, 50>>, <<0, -50>>, <<45, 45>>,
     <<-45, -45>>, <<50, -50>>, <<-55, 55>>, <<10, -20>>, <<-30, 5>>}

\* the place of ball2 seen from ball1, in tenths of a pixel: on ball1, much
\* and little overlap, touching, apart
CallOffsets ==
    {<<0, 0>>, <<3, -4>>, <<300, 400>>, <<-420, 400>>, <<590, 0>>, <<600, 0>>,
     <<360, 480>>, <<610, 0>>, <<0, -795>>, <<480, 640>>, <<0, 900>>}

\* the velocities of ball2, in tenths of a pixel per frame
PairVelocities == {<<0, 0>>, <<50, 0>>, <<-45, -45>>, <<0, -50>>, <<-30, 5>>}

\* what a routine called on its own neither reads nor writes
Quiet ==
    /\ state = "FIRST_HALF"
    /\ frame_counter = 0
    /\ added_time_1 = 1
    /\ added_time_2 = 2
    /\ display_added_time = FALSE
    /\ sim_minute = 0
    /\ score1 = 0
    /\ score2 = 0
    /\ goal_rotating = FALSE
    /\ diff = 0
    /\ goll_timer = 0
    /\ goal_events_1 = <<>>
    /\ goal_events_2 = <<>>
    /\ frame_goals = 0
    /\ NoMatch
    /\ Alone

\* the same, the random generator untouched
AtRest == Quiet /\ NoCage /\ rng = 0

restVars ==
    <<clockVars, added_time_1, added_time_2, ledgerVars, goal_angle,
      goal_rotating, diff, goll_timer, rng, frame_goals>>

\* two balls of futbol 1.2, 1.3 or 1.4 before a call
BallsInit ==
    \E v \in {"1.2", "1.3", "1.4"} : \E p \in CallPlaces : \E u \in CallVelocities :
        \E o \in CallOffsets : \E w \in PairVelocities :
            /\ variant = v
            /\ pc = "call"
            /\ ball1 = Ball(center_x + p[1] * PS, center_y + p[2] * PS,
                            u[1] * (VS \div 10), u[2] * (VS \div 10))
            /\ ball2 = Ball(center_x + p[1] * PS + o[1] * (PS \div 10),
                            center_y + p[2] * PS + o[2] * (PS \div 10),
                            w[1] * (VS \div 10), w[2] * (VS \div 10))
            /\ bodies = <<>>
            /\ checked = <<>>
            /\ goal_angle = HalfPi
            /\ AtRest

\* places of ball1 for the goal check, in length units from the arena's
\* centre: all around the wall, just below and just above the x axis, and
\* one away from the wall
AnglePlaces ==
    {<<22000, 0>>, <<22000, 1101>>, <<22000, -1101>>, <<0, 22000>>,
     <<0, -22000>>, <<-22000, 0>>, <<-22000, -1>>, <<-15600, 15600>>,
     <<15600, -15600>>, <<-12000, -18500>>, <<10000, 0>>}

\* centre angles of the goal zone, in [0, 2 pi)
GoalAngles ==
    {0, 500, HalfPi, Pi - 1, Pi, 3 * HalfPi, TwoPi - 1, 20000, 40000, 50000}

\* a ball and a goal zone before the goal check
AnglesInit ==
    \E v \in {"1.2", "1.3", "1.4"} : \E p \in AnglePlaces : \E g \in GoalAngles :
        /\ variant = v
        /\ pc = "call"
        /\ ball1 = Ball(center_x + p[1], center_y + p[2], 0, 0)
        /\ ball2 = Ball(center_x, center_y, 0, 0)
        /\ bodies = <<>>
        /\ checked = <<>>
        /\ goal_angle = g
        /\ AtRest

\* the goal detection's look at ball1: dist, ball_ang and diff
CallGoalCheck ==
    /\ variant \in {"1.2", "1.3", "1.4"}
    /\ pc = "call"
    /\ pc' = "goal"
    /\ diff' = AngleFound(ball1)
    /\ UNCHANGED <<variant, twinVars, simVars, cageVars, passVars, clockVars,
                   added_time_1, added_time_2,
                   ledgerVars, goal_angle, goal_rotating, goll_timer, rng,
                   frame_goals, ball1, ball2>>

\* Ball.collide_wall of the program that runs
collide_wall(b) ==
    IF variant = "1.2" THEN collide_wall_1_2(b)
    ELSE IF variant = "1.3" THEN collide_wall_1_3(b)
    ELSE collide_wall_1_4(b)

\* ball1.collide_wall(center_x, center_y, ARENA_RADIUS)
CallWall ==
    /\ variant \in {"1.2", "1.3", "1.4"}
    /\ pc = "call"
    /\ pc' = "wall"
    /\ ball1' = collide_wall(ball1)
    /\ UNCHANGED <<variant, twinVars, simVars, cageVars, passVars, restVars, ball2>>

\* the pair routine of the program that runs: check_collision(ball1, ball2)
\* in futbol 1.2, resolve_collisions(ball1, ball2) in futbol 1.3 and 1.4
PairRoutine(after) ==
    /\ variant \in {"1.2", "1.3", "1.4"}
    /\ IF variant = "1.2" /\ ZeroDistance(ball1, ball2)
       THEN /\ pc' = "crashed"
            /\ UNCHANGED <<ball1, ball2>>
       ELSE LET bb == IF variant = "1.2" THEN check_collision(ball1, ball2)
                      ELSE resolve_collisions(ball1, ball2)
            IN  /\ pc' = after
                /\ ball1' = bb[1]
                /\ ball2' = bb[2]
    /\ UNCHANGED <<variant, twinVars, simVars, cageVars, passVars, restVars>>

\* one call of the pair routine
CallPair == pc = "call" /\ PairRoutine("pair")

\* a second call right after the first
CallPairAgain == pc = "pair" /\ PairRoutine("pair2")

\* ---- futbol 1.5 and 2.1: three bodies, each with a radius and a mass

Body(px, py, pvx, pvy, r, m) ==
    [x |-> px, y |-> py, vx |-> pvx, vy |-> pvy, radius |-> r, mass |-> m]

\* the arena: futbol 1.5's cx, cy and ARENA_RADIUS, futbol 2.1's CENTER and
\* ARENA_RADIUS
Arena ==
    IF variant = "1.5"
    THEN [x |-> 300 * PS, y |-> 500 * PS, radius |-> 280 * PS]
    ELSE [x |-> 270 * PS, y |-> 480 * PS, radius |-> 250 * PS]

\* what a bounce off the wall keeps of the velocity: 0.9 in futbol 1.5,
\* ELASTICITY = 0.8 in futbol 2.1
WallLoss == IF variant = "1.5" THEN <<9, 10>> ELSE <<8, 10>>

\* the bodies of futbol 1.5 (objects = [team1, team2, ball]) and of futbol
\* 2.1 (ball, p1, p2, as reset_positions makes them) at the places p (pixels
\* from the centre) with the velocities u (pixels per frame)
Bodies(p, u) ==
    LET r == IF variant = "1.5" THEN <<35, 35, 20>> ELSE <<15, 30, 30>>
        m == IF variant = "1.5" THEN <<3, 3, 1>> ELSE <<1, 5, 5>>
    IN  [i \in 1 .. 3 |->
            Body(Arena.x + p[i][1] * PS, Arena.y + p[i][2] * PS,
                 u[i][1] * VS, u[i][2] * VS, r[i] * PS, m[i])]

\* check_wall_collision of Marble (1.5) and PhysicsObject (2.1); the vector
\* (cos(angle), sin(angle)) of angle = atan2(dy, dx) is (dx, dy) / dist
check_wall_collision(b) ==
    LET dx == b.x - Arena.x
        dy == b.y - Arena.y
        dist == Hypot(dx, dy)
        nx == Div(dx * NS, dist)
        ny == Div(dy * NS, dist)
        overlap == (dist + b.radius) - Arena.radius
        dot == Div(b.vx * nx + b.vy * ny, NS)
    IN  IF dist + b.radius > Arena.radius
        THEN [b EXCEPT
                !.x = @ - Div(nx * overlap, NS),
                !.y = @ - Div(ny * overlap, NS),
                !.vx = Div((@ - Div(dot * nx, NS \div 2)) * WallLoss[1], WallLoss[2]),
                !.vy = Div((@ - Div(dot * ny, NS \div 2)) * WallLoss[1], WallLoss[2])]
        ELSE b

\* (cos(angle), sin(angle)) of angle = atan2(dy, dx); atan2(0, 0) is 0
Direction(dx, dy) ==
    LET dist == Hypot(dx, dy)
    IN  IF dist = 0 THEN <<NS, 0>> ELSE <<Div(dx * NS, dist), Div(dy * NS, dist)>>

\* the pairs futbol 1.5's two loops "for i in range(len(objects)): for j in
\* range(i + 1, len(objects))" go through, from (i, j) on, of n bodies
RECURSIVE PairsFrom(_, _, _)
PairsFrom(i, j, n) ==
    IF i > n THEN <<>>
    ELSE IF j > n THEN PairsFrom(i + 1, i + 2, n)
    ELSE <<<<i, j>>>> \o PairsFrom(i, j + 1, n)

\* the body of futbol 1.5's inner loop for objects i and j: push apart,
\* exchange the velocities
MarblePair(bs, i, j) ==
    LET o1 == bs[i]
        o2 == bs[j]
        dx == o2.x - o1.x
        dy == o2.y - o1.y
        dist == Hypot(dx, dy)
        d == Direction(dx, dy)
        gap == (o1.radius + o2.radius) - dist
        sx == Div(d[1] * gap, 2 * NS)
        sy == Div(d[2] * gap, 2 * NS)
    IN  IF dist < o1.radius + o2.radius
        THEN [bs EXCEPT
                ![i] = [o1 EXCEPT !.x = @ - sx, !.y = @ - sy,
                                  !.vx = o2.vx, !.vy = o2.vy],
                ![j] = [o2 EXCEPT !.x = @ + sx, !.y = @ + sy,
                                  !.vx = o1.vx, !.vy = o1.vy]]
        ELSE bs

\* futbol 1.5's "Marble-to-Marble Collisions" over the pairs still to do
RECURSIVE MarblePass(_, _)
MarblePass(bs, pairs) ==
    IF pairs = <<>> THEN bs
    ELSE MarblePass(MarblePair(bs, Head(pairs)[1], Head(pairs)[2]), Tail(pairs))

\* the body of handle_collisions' loop (futbol 2.1) for the ball bs[1] and
\* the player bs[k]: the ball is pushed away; then nx = dx / dist raises
\* ZeroDivisionError for coinciding centres (ok is FALSE), else the impulse
BallPlayer(bs, k) ==
    LET ball == bs[1]
        p == bs[k]
        dx == ball.x - p.x
        dy == ball.y - p.y
        dist == Hypot(dx, dy)
        d == Direction(dx, dy)
        overlap == (ball.radius + p.radius) - dist
        pushed == [ball EXCEPT !.x = @ + Div(d[1] * overlap, NS),
                               !.y = @ + Div(d[2] * overlap, NS)]
        nx == Div(dx * NS, dist)
        ny == Div(dy * NS, dist)
        impact_speed == Div((ball.vx - p.vx) * nx + (ball.vy - p.vy) * ny, NS)
        impulse == Div(2 * impact_speed, ball.mass + p.mass)
    IN  IF dist < ball.radius + p.radius
        THEN IF dist = 0
             THEN [bs |-> [bs EXCEPT ![1] = pushed], ok |-> FALSE]
             ELSE IF impact_speed > 0
             THEN [bs |-> [bs EXCEPT ![1] = pushed], ok |-> TRUE]
             ELSE [bs |-> [bs EXCEPT
                             ![1] = [pushed EXCEPT
                                       !.vx = @ - Div(impulse * p.mass * nx, NS),
                                       !.vy = @ - Div(impulse * p.mass * ny, NS)],
                             ![k] = [p EXCEPT
                                       !.vx = @ + Div(impulse * ball.mass * nx, NS),
                                       !.vy = @ + Div(impulse * ball.mass * ny, NS)]],
                   ok |-> TRUE]
        ELSE [bs |-> bs, ok |-> TRUE]

\* handle_collisions of futbol 2.1, "for p in self.players", from player k
\* on: the bodies after, whether the call returned, the pairs looked at
RECURSIVE handle_collisions(_, _, _)
handle_collisions(bs, k, seen) ==
    IF k > Len(bs) THEN [bs |-> bs, ok |-> TRUE, seen |-> seen]
    ELSE LET r == BallPlayer(bs, k)
         IN  IF r.ok THEN handle_collisions(r.bs, k + 1, Append(seen, <<1, k>>))
             ELSE [bs |-> r.bs, ok |-> FALSE, seen |-> Append(seen, <<1, k>>)]

\* the places of the three bodies, in pixels from the arena's centre: the
\* kick-off places of both programs, overlapping and coinciding bodies,
\* bodies at the wall
BodyPlaces ==
    {<<<<-100, 0>>, <<100, 0>>, <<0, -150>>>>,
     <<<<0, 0>>, <<0, -100>>, <<0, 100>>>>,
     <<<<-30, 0>>, <<30, 0>>, <<0, -40>>>>,
     <<<<0, 0>>, <<20, 15>>, <<-25, 10>>>>,
     <<<<10, 10>>, <<10, 10>>, <<150, 0>>>>,
     <<<<0, -20>>, <<0, -20>>, <<0, -20>>>>,
     <<<<-250, 0>>, <<226, 0>>, <<0, -262>>>>,
     <<<<0, 240>>, <<-170, -180>>, <<40, 0>>>>,
     <<<<-120, 0>>, <<0, 0>>, <<25, 0>>>>,
     <<<<0, -236>>, <<10, 30>>, <<-12, 216>>>>}

\* the velocities of the three bodies, in pixels per frame
BodyVelocities ==
    {<<<<8, 8>>, <<-8, 8>>, <<8, -8>>>>,
     <<<<-8, -8>>, <<8, -8>>, <<0, 0>>>>,
     <<<<5, 5>>, <<-5, -5>>, <<5, -5>>>>,
     <<<<-5, 5>>, <<5, 5>>, <<-5, -5>>>>,
     <<<<0, 0>>, <<2, -3>>, <<-8, -8>>>>,
     <<<<7, -7>>, <<6, 6>>, <<-8, 8>>>>,
     <<<<-4, 0>>, <<4, 0>>, <<0, 6>>>>,
     <<<<3, 1>>, <<-2, -1>>, <<1, -4>>>>,
     <<<<0, 5>>, <<0, -5>>, <<5, 0>>>>,
     <<<<-1, 2>>, <<-6, -6>>, <<6, 3>>>>,
     <<<<8, 0>>, <<0, 0>>, <<0, 0>>>>,
     <<<<-3, -3>>, <<3, 3>>, <<-6, 2>>>>}

\* three bodies of futbol 1.5 or 2.1 before a call
BodiesInit ==
    \E v \in {"1.5", "2.1"} : \E p \in BodyPlaces : \E u \in BodyVelocities :
        /\ variant = v
        /\ pc = "call"
        /\ bodies = Bodies(p, u)
        /\ checked = <<>>
        /\ ball1 = Ball(0, 0, 0, 0)
        /\ ball2 = Ball(0, 0, 0, 0)
        /\ goal_angle = HalfPi
        /\ AtRest

\* obj.check_wall_collision(...) for each of the bodies
CallBodyWall ==
    /\ variant \in {"1.5", "2.1"}
    /\ pc = "call"
    /\ pc' = "wall"
    /\ bodies' = [i \in 1 .. 3 |-> check_wall_collision(bodies[i])]
    /\ UNCHANGED <<variant, twinVars, simVars, cageVars, checked, restVars, ball1, ball2>>

\* futbol 1.5's collision pass over objects
CallMarblePass ==
    /\ variant = "1.5"
    /\ pc = "call"
    /\ pc' = "pass"
    /\ bodies' = MarblePass(bodies, PairsFrom(1, 2, Len(bodies)))
    /\ checked' = PairsFrom(1, 2, Len(bodies))
    /\ UNCHANGED <<variant, twinVars, simVars, cageVars, restVars, ball1, ball2>>

\* futbol 2.1's self.handle_collisions()
CallHandleCollisions ==
    /\ variant = "2.1"
    /\ pc = "call"
    /\ LET r == handle_collisions(bodies, 2, <<>>)
       IN  /\ pc' = IF r.ok THEN "pass" ELSE "crashed"
           /\ bodies' = r.bs
           /\ checked' = r.seen
    /\ UNCHANGED <<variant, twinVars, simVars, cageVars, restVars, ball1, ball2>>

\* states of the random generator before a respawn
SpawnSeeds == {251 * k : k \in 0 .. 255}

\* two balls of futbol 1.3 or 1.4 before a respawn
SpawnInit ==
    \E v \in {"1.3", "1.4"} : \E seed \in SpawnSeeds :
        /\ variant = v
        /\ pc = "call"
        /\ ball1 = Ball(center_x + 200 * PS, center_y - 90 * PS, 5 * VS, -2 * VS)
        /\ ball2 = Ball(center_x, center_y + 215 * PS, -3 * VS, 4 * VS)
        /\ bodies = <<>>
        /\ checked = <<>>
        /\ goal_angle = HalfPi
        /\ rng = seed
        /\ NoCage
        /\ Quiet

\* the respawn of the goal reset (futbol 1.3) and of the half-time reset
\* (futbol 1.3 and 1.4): two calls of get_random_spawn, the points given to
\* ball1 and ball2
CallSpawn ==
    /\ variant \in {"1.3", "1.4"}
    /\ pc = "call"
    /\ pc' = "spawn"
    /\ LET g1 == get_random_spawn(rng)
           g2 == get_random_spawn(g1.rng)
       IN  /\ ball1' = Ball(g1.x, g1.y, ball1.vx, ball1.vy)
           /\ ball2' = Ball(g2.x, g2.y, ball2.vx, ball2.vy)
           /\ rng' = g2.rng
    /\ UNCHANGED <<variant, twinVars, simVars, cageVars, passVars, clockVars, diff,
                   added_time_1, added_time_2,
                   ledgerVars, goal_angle, goal_rotating, goll_timer,
                   frame_goals>>

RoutineNext ==
    \/ CallSpawn
    \/ CallWall
    \/ CallPair
    \/ CallPairAgain
    \/ CallBodyWall
    \/ CallMarblePass
    \/ CallHandleCollisions
    \/ CallGoalCheck

RoutineInit == BallsInit \/ BodiesInit \/ AnglesInit \/ SpawnInit

RoutineSpec == RoutineInit /\ [][RoutineNext]_vars

\* ---- futbol 2.1: the loop of FootballSim.run

PLAYER_SPEED == VS \div 5
MAX_SPEED == 12 * VS
GOAL_WIDTH == 100 * PS

\* frames the goal text is shown: trigger_goal's goal_timer = 60
GOAL_PAUSE == 6 * 10

\* random.choice([-5, 5]) of PhysicsObject.__init__, in pixels per frame,
\* read off the generator state r
choice_5(r) == IF Below(r, 2) = 0 THEN -5 ELSE 5

\* reset_positions: ball, p1 and p2 are made anew at the kick-off places,
\* each with two drawn velocity components; the generator's state after
reset_positions(r) ==
    LET r1 == NextRng(r)
        r2 == NextRng(r1)
        r3 == NextRng(r2)
        r4 == NextRng(r3)
        r5 == NextRng(r4)
        r6 == NextRng(r5)
    IN  [bs |-> Bodies(<<<<0, 0>>, <<0, -100>>, <<0, 100>>>>,
                       <<<<choice_5(r1), choice_5(r2)>>,
                         <<choice_5(r3), choice_5(r4)>>,
                         <<choice_5(r5), choice_5(r6)>>>>),
         rng |-> r6]

\* PhysicsObject.move: the step, then FRICTION = 0.995
PhysicsObject_move(b) ==
    [b EXCEPT !.x = @ + Div(b.vx, VPP),
              !.y = @ + Div(b.vy, VPP),
              !.vx = Div(b.vx * 995, 1000),
              !.vy = Div(b.vy * 995, 1000)]

\* the body of ai_movement's loop for player p: PLAYER_SPEED towards the
\* ball, the speed cut to MAX_SPEED
Chase(ball, p) ==
    LET d == Direction(ball.x - p.x, ball.y - p.y)
        vx == p.vx + Div(d[1] * PLAYER_SPEED, NS)
        vy == p.vy + Div(d[2] * PLAYER_SPEED, NS)
        speed == Hypot(vx, vy)
    IN  IF speed > MAX_SPEED
        THEN [p EXCEPT !.vx = Div(Div(vx * NS, speed) * MAX_SPEED, NS),
                       !.vy = Div(Div(vy * NS, speed) * MAX_SPEED, NS)]
        ELSE [p EXCEPT !.vx = vx, !.vy = vy]

\* ai_movement: "for p in self.players"
ai_movement(bs) ==
    [bs EXCEPT ![2] = Chase(bs[1], bs[2]), ![3] = Chase(bs[1], bs[3])]

\* check_goal's two tests of the ball: "Goal Top" and "Goal Bottom"
GoalTop(ball) ==
    /\ ball.y < Arena.y - Arena.radius + ball.radius + 5 * PS
    /\ Abs(ball.x - Arena.x) < GOAL_WIDTH \div 2

GoalBottom(ball) ==
    /\ ~(ball.y < Arena.y - Arena.radius + ball.radius + 5 * PS)
    /\ ball.y > Arena.y + Arena.radius - ball.radius - 5 * PS
    /\ Abs(ball.x - Arena.x) < GOAL_WIDTH \div 2

\* the bodies when check_goal is called: after ai_movement, the three moves,
\* the three wall checks and handle_collisions
BeforeGoalCheck(bs) ==
    LET chased == ai_movement(bs)
        moved == [i \in 1 .. 3 |-> PhysicsObject_move(chased[i])]
        walled == [i \in 1 .. 3 |-> check_wall_collision(moved[i])]
    IN  handle_collisions(walled, 2, <<>>)

\* a faulty form of trigger_goal, the goal text's timer set and the bodies
\* left where they were: C29 must tell the two apart
trigger_goal_NoReset ==
    /\ goal_timer' = GOAL_PAUSE
    /\ UNCHANGED <<bodies, rng>>

\* trigger_goal: the pause begins, reset_positions
trigger_goal ==
    /\ goal_timer' = GOAL_PAUSE
    /\ bodies' = reset_positions(rng).bs
    /\ rng' = reset_positions(rng).rng

\* check_goal for the bodies r.bs
check_goal(r) ==
    IF GoalTop(r.bs[1])
    THEN /\ score_team2' = score_team2 + 1
         /\ UNCHANGED score_team1
         /\ trigger_goal
    ELSE IF GoalBottom(r.bs[1])
    THEN /\ score_team1' = score_team1 + 1
         /\ UNCHANGED score_team2
         /\ trigger_goal
    ELSE /\ bodies' = r.bs
         /\ UNCHANGED <<score_team1, score_team2, goal_timer, rng>>

\* the most loop iterations of play that are followed
MaxMatchTime == 4 * 60

\* the variables of futbol 1.2, 1.3 and 1.4, which futbol 2.1 has not
oldVars ==
    <<clockVars, ledgerVars, added_time_1, added_time_2, goal_angle,
      goal_rotating, diff, goll_timer, ball1, ball2, frame_goals>>

\* run, "if self.goal_timer > 0": the pause counts down
Paused ==
    /\ variant = "2.1"
    /\ pc = "run"
    /\ goal_timer > 0
    /\ goal_timer' = goal_timer - 1
    /\ UNCHANGED <<variant, twinVars, cageVars, pc, oldVars, passVars, rng,
                   score_team1, score_team2, match_time>>

\* run, the else branch: ai, moves, wall checks, collisions, goal check,
\* time; handle_collisions may raise ZeroDivisionError, which ends the run
Played ==
    /\ variant = "2.1"
    /\ pc = "run"
    /\ goal_timer = 0
    /\ match_time < MaxMatchTime
    /\ LET r == BeforeGoalCheck(bodies)
       IN  IF r.ok
           THEN /\ pc' = "run"
                /\ check_goal(r)
                /\ match_time' = match_time + 1
           ELSE /\ pc' = "crashed"
                /\ bodies' = r.bs
                /\ UNCHANGED <<simVars, rng>>
    /\ UNCHANGED <<variant, twinVars, cageVars, oldVars, checked>>

\* states of the random generator when FootballSim is made
SimSeeds == {1021 * k : k \in 0 .. 31}

\* FootballSim.__init__
SimInit ==
    \E seed \in SimSeeds :
        /\ variant = "2.1"
        /\ pc = "run"
        /\ bodies = reset_positions(seed).bs
        /\ rng = reset_positions(seed).rng
        /\ checked = <<>>
        /\ ball1 = Ball(0, 0, 0, 0)
        /\ ball2 = Ball(0, 0, 0, 0)
        /\ goal_angle = HalfPi
        /\ NoCage
        /\ Quiet

SimNext == Paused \/ Played

SimSpec == SimInit /\ [][SimNext]_vars

\* ---- bouncing_ball.py: a ball in a rectangular cage

CAGE_WIDTH == 500 * PS
CAGE_HEIGHT == 400 * PS

\* cage_rect = pygame.Rect(CAGE_X, CAGE_Y, CAGE_WIDTH, CAGE_HEIGHT) in the
\* window of 800 x 600
cage_rect ==
    LET CAGE_X == (800 * PS - CAGE_WIDTH) \div 2
        CAGE_Y == (600 * PS - CAGE_HEIGHT) \div 2
    IN  [left |-> CAGE_X, right |-> CAGE_X + CAGE_WIDTH,
         top |-> CAGE_Y, bottom |-> CAGE_Y + CAGE_HEIGHT,
         centerx |-> CAGE_X + CAGE_WIDTH \div 2,
         centery |-> CAGE_Y + CAGE_HEIGHT \div 2]

\* bouncing_ball.py's BALL_RADIUS and GRAVITY
CAGED_RADIUS == 25 * PS
CAGED_GRAVITY == VS \div 2

\* -v * BOUNCE_FACTOR, BOUNCE_FACTOR = 0.95
Bounce(v) == Div(-v * 95, 100)

\* "1. Floor" and "2. Ceiling" for the ball b (x, y, vx, vy)
Floor(b) ==
    IF b.y + CAGED_RADIUS > cage_rect.bottom
    THEN [b EXCEPT !.y = cage_rect.bottom - CAGED_RADIUS, !.vy = Bounce(b.vy)]
    ELSE b

Ceiling(b) ==
    IF b.y - CAGED_RADIUS < cage_rect.top
    THEN [b EXCEPT !.y = cage_rect.top + CAGED_RADIUS, !.vy = Bounce(b.vy)]
    ELSE b

\* a faulty form of RightWall, the ball turned round where it is: C30 must
\* tell the two apart
RightWall_Unclamped(b) ==
    IF b.x + CAGED_RADIUS > cage_rect.right
    THEN [b EXCEPT !.vx = Bounce(b.vx)]
    ELSE b

\* "3. Right Wall" and "4. Left Wall"
RightWall(b) ==
    IF b.x + CAGED_RADIUS > cage_rect.right
    THEN [b EXCEPT !.x = cage_rect.right - CAGED_RADIUS, !.vx = Bounce(b.vx)]
    ELSE b

LeftWall(b) ==
    IF b.x - CAGED_RADIUS < cage_rect.left
    THEN [b EXCEPT !.x = cage_rect.left + CAGED_RADIUS, !.vx = Bounce(b.vx)]
    ELSE b

\* the most frames of the caged ball that are followed
MaxFrames == 3 * 1000

\* one iteration of the loop of main: "Physics Logic", then "CAGE Collision
\* Detection"
Frame ==
    /\ variant = "bouncing_ball"
    /\ pc = "loop"
    /\ frames < MaxFrames
    /\ frames' = frames + 1
    /\ LET vy == vel_y + CAGED_GRAVITY
           moved == Ball(ball_x + Div(vel_x, VPP), ball_y + Div(vy, VPP), vel_x, vy)
           b == LeftWall(RightWall(Ceiling(Floor(moved))))
       IN  /\ ball_x' = b.x
           /\ ball_y' = b.y
           /\ vel_x' = b.vx
           /\ vel_y' = b.vy
    /\ UNCHANGED <<variant, twinVars, pc, oldVars, passVars, rng, simVars>>

\* main, up to the loop: the ball in the exact centre of the cage
CageInit ==
    /\ variant = "bouncing_ball"
    /\ pc = "loop"
    /\ ball_x = cage_rect.centerx
    /\ ball_y = cage_rect.centery
    /\ vel_x = 5 * VS
    /\ vel_y = 0
    /\ frames = 0
    /\ bodies = <<>>
    /\ checked = <<>>
    /\ ball1 = Ball(0, 0, 0, 0)
    /\ ball2 = Ball(0, 0, 0, 0)
    /\ goal_angle = HalfPi
    /\ rng = 0
    /\ Quiet

CageSpec == CageInit /\ [][Frame]_vars

\* ------------------------------------------------------------------ claims

\* the four states of the match clock and its three changes
ClockStates == {"FIRST_HALF", "HALFTIME", "SECOND_HALF", "FULLTIME"}

ClockOrder ==
    {<<"FIRST_HALF", "HALFTIME">>, <<"HALFTIME", "SECOND_HALF">>,
     <<"SECOND_HALF", "FULLTIME">>}

\* C1: the clock's state is always one of FIRST_HALF, HALFTIME, SECOND_HALF
\* and FULLTIME, and it changes only from one of them to the next; so it
\* never goes back and FULLTIME never changes.
C1_ClockMonotonic ==
    /\ [](state \in ClockStates)
    /\ [][state' # state => <<state, state'>> \in ClockOrder]_vars

\* C2: in one iteration of the main loop the goal detection records at most
\* one goal, whatever the places of the two balls.
C2_OneGoalPerTick == frame_goals <= 1

\* the tolerance of the two geometric claims: one pixel
EPSILON == PS

\* how far ball b reaches beyond the wall (negative inside)
Beyond(b) == Hypot(b.x - center_x, b.y - center_y) + BALL_RADIUS - ARENA_RADIUS

\* the distance of the two centres
Apart == Hypot(ball2.x - ball1.x, ball2.y - ball1.y)

\* C3: when an iteration of the main loop is over, each ball lies inside the
\* wall: distance from the centre plus radius is at most the arena's radius
\* plus the tolerance.
C3_Containment ==
    pc = "timer" => Beyond(ball1) <= EPSILON /\ Beyond(ball2) <= EPSILON

\* C4: when an iteration of the main loop is over, a goal reset or a
\* half-time respawn included, the two balls do not overlap: their centres
\* are at least the two radii minus the tolerance apart.
C4_NonPenetration ==
    (pc = "timer" /\ (frame_counter > 0 \/ state # "FIRST_HALF"))
        => Apart >= BALL_RADIUS + BALL_RADIUS - EPSILON

\* C5: while the clock's state is HALFTIME or FULLTIME, the physics and the
\* goal detection of the iteration change nothing: no ball moves, no
\* velocity and no score changes, no frame is counted.
C5_Freeze ==
    [][(pc \in {"physics", "goal1", "goal2"} /\ state \in {"HALFTIME", "FULLTIME"})
          => UNCHANGED <<ball1, ball2, score1, score2, frame_counter>>]_vars

\* C6: a match whose loop keeps running enters the second half and reaches
\* full time, whatever the injury times drawn.
C6_MatchEnds == <>(state = "SECOND_HALF") /\ <>(state = "FULLTIME")

\* the frame on which the first half ends
FirstHalfFrames == (45 + added_time_1) * FRAMES_PER_SIM_MINUTE

\* C7: the clock leaves FIRST_HALF on the frame (45 + added_time_1) * 30, not
\* before and not after; with two minutes of injury time that is frame 1410,
\* and futbol 1.2 and 1.3 are then in HALFTIME.
C7_FirstHalfEnd ==
    /\ [](state = "FIRST_HALF" => frame_counter < FirstHalfFrames)
    /\ [][(state = "FIRST_HALF" /\ state' # "FIRST_HALF")
            => /\ frame_counter' = FirstHalfFrames
               /\ added_time_1 = 2 => frame_counter' = 1410
               /\ variant \in {"1.2", "1.3"} => state' = "HALFTIME"]_vars

\* futbol 1.2 has left the first half on frame 1410 of a match with two
\* minutes of injury time
C7_Witness ==
    /\ variant = "1.2"
    /\ added_time_1 = 2
    /\ state = "HALFTIME"
    /\ frame_counter = 1410

\* C8: the change from HALFTIME to SECOND_HALF sets frame_counter to 0 and
\* display_added_time to FALSE; in the second half sim_minute is 45 plus
\* frame_counter div 30; the clock enters FULLTIME on the second-half frame
\* (45 + added_time_2) * 30 and on no other.
C8_SecondHalf ==
    /\ [][(state = "HALFTIME" /\ state' = "SECOND_HALF")
            => frame_counter' = 0 /\ display_added_time' = FALSE]_vars
    /\ [](state = "SECOND_HALF"
            => /\ sim_minute = 45 + frame_counter \div FRAMES_PER_SIM_MINUTE
               /\ frame_counter < (45 + added_time_2) * FRAMES_PER_SIM_MINUTE)
    /\ [][(state = "SECOND_HALF" /\ state' # "SECOND_HALF")
            => /\ state' = "FULLTIME"
               /\ frame_counter' = (45 + added_time_2) * FRAMES_PER_SIM_MINUTE]_vars

\* the angle between the goal zone's centre and ball b, the short way round
AngularDistance(b) ==
    LET d == (ball_ang(b) - goal_angle) % TwoPi
    IN  Min(d, TwoPi - d)

\* the goal check of ball b, with the scores own and other before and
\* ownAfter and otherAfter after, follows the rule
GoalRule(b, own, other, ownAfter, otherAfter) ==
    IF NearWall(b) /\ AngularDistance(b) < GOAL_WIDTH_RADIANS \div 2
    THEN ownAfter = own + 1 /\ otherAfter = other
    ELSE ownAfter = own /\ otherAfter = other

\* C9: the goal check of a ball that is in the band along the wall and less
\* than half the goal's width from the goal's centre angle adds one to the
\* score of the ball's team and leaves the other score; the check of any
\* other ball changes no score.
C9_GoalRule ==
    [][/\ pc = "goal1" => GoalRule(ball1, score1, score2, score1', score2')
       /\ pc = "goal2" => GoalRule(ball2, score2, score1, score2', score1')]_vars

\* ball1 of futbol 1.2 has just scored and ball2's check is next
C9_Witness ==
    /\ variant = "1.2"
    /\ pc = "goal2"
    /\ frame_goals = 1
    /\ score1 >= 1

\* sequence a is a prefix of sequence b
IsPrefix(a, b) == Len(a) <= Len(b) /\ SubSeq(b, 1, Len(a)) = a

\* score n and list e of one team after a step, nAfter and eAfter: the score
\* does not fall, the list only grows at its end, and the score changes by
\* one together with one entry more
LedgerStep(n, e, nAfter, eAfter) ==
    /\ nAfter >= n
    /\ IsPrefix(e, eAfter)
    /\ (nAfter # n \/ eAfter # e) => (nAfter = n + 1 /\ Len(eAfter) = Len(e) + 1)

\* C10: in futbol 1.4 each team's list of goal times is as long as its
\* score; no score falls; the lists only grow at their ends; a score changes
\* only by one, with one entry more in the same team's list.
C10_Ledger ==
    /\ [](variant = "1.4"
            => Len(goal_events_1) = score1 /\ Len(goal_events_2) = score2)
    /\ [][variant = "1.4"
            => /\ LedgerStep(score1, goal_events_1, score1', goal_events_1')
               /\ LedgerStep(score2, goal_events_2, score2', goal_events_2')
               /\ ~(score1' # score1 /\ score2' # score2)]_vars

\* futbol 1.4 has recorded goals of both teams
C10_Witness ==
    /\ variant = "1.4"
    /\ score1 >= 1
    /\ score2 >= 2
    /\ Len(goal_events_2) = 2

\* C11: the goal zone rotates exactly when a goal has been scored; before the
\* first goal its angle is the first one; once rotating it rotates for ever;
\* the physics of a tick adds goal_rot_speed modulo 2 pi to a rotating
\* zone's angle, nothing else moves the zone in futbol 1.3 and 1.4, and the
\* angle stays in [0, 2 pi).
C11_GoalZone ==
    /\ [](goal_rotating <=> score1 + score2 >= 1)
    /\ [](score1 + score2 = 0 => goal_angle = HalfPi)
    /\ [](goal_angle >= 0 /\ goal_angle < TwoPi)
    /\ [][goal_rotating => goal_rotating']_vars
    /\ [][(pc = "physics" /\ pc' = "goal1")
            => goal_angle' = IF goal_rotating
                             THEN (goal_angle + goal_rot_speed) % TwoPi
                             ELSE goal_angle]_vars
    /\ [][(pc # "physics" /\ variant # "1.2") => goal_angle' = goal_angle]_vars

\* the rotating zone of futbol 1.4 has just passed the angle 0
C11_Witness ==
    /\ variant = "1.4"
    /\ goal_rotating
    /\ score1 + score2 >= 1
    /\ goal_angle < goal_rot_speed

\* the unit vector from the arena's centre to ball b, which is not there
OutwardNormal(b) ==
    LET dx == b.x - center_x
        dy == b.y - center_y
    IN  <<Div(dx * NS, Hypot(dx, dy)), Div(dy * NS, Hypot(dx, dy))>>

\* the component of b's velocity along the unit vector n
Along(b, n) == Div(b.vx * n[1] + b.vy * n[2], NS)

\* b touches the wall or is past it
AtWall(b) == Hypot(b.x - center_x, b.y - center_y) + BALL_RADIUS >= ARENA_RADIUS

\* the velocity <<vx, vy>> mirrored at the wall and damped
Mirrored(b, n, damp) ==
    <<Div((b.vx - Div(Along(b, n) * n[1], NS \div 2)) * damp[1], damp[2]),
      Div((b.vy - Div(Along(b, n) * n[2], NS \div 2)) * damp[1], damp[2])>>

\* the wall damping of the program that runs (futbol 1.2 has none)
WallDamping == IF variant = "1.2" THEN <<1, 1>> ELSE BOUNCE_DAMPING

\* C12: collide_wall, called for a ball on or past the wall, leaves the
\* velocity of a ball that does not move outward, mirrors and damps the
\* velocity of one that does, and so returns no outward velocity.
C12_WallReflection ==
    [][(pc = "call" /\ pc' = "wall" /\ AtWall(ball1))
        => LET n == OutwardNormal(ball1)
           IN  /\ Along(ball1, n) <= 0
                    => ball1'.vx = ball1.vx /\ ball1'.vy = ball1.vy
               /\ Along(ball1, n) > 0
                    => <<ball1'.vx, ball1'.vy>> = Mirrored(ball1, n, WallDamping)
               /\ Along(ball1', n) <= 0]_vars

\* what rounding to the model's units can add to a length: 0.02 pixel
Rounding == PS \div 50

\* the wall routine has taken a body of radius r from "before" to "after" in
\* the arena of radius R around (cx, cy): a body on or past the wall is now
\* on the wall, on the same ray from the centre, overlap nearer to it; any
\* other body is as it was
WallCorrected(cx, cy, R, r, before, after) ==
    LET dx == before.x - cx
        dy == before.y - cy
        d == Hypot(dx, dy)
        ex == after.x - cx
        ey == after.y - cy
        overlap == (d + r) - R
    IN  IF d + r >= R
        THEN /\ Abs((Hypot(ex, ey) + r) - R) <= Rounding
             /\ Abs(Hypot(before.x - after.x, before.y - after.y) - overlap)
                    <= Rounding
             /\ Abs(dx * ey - dy * ex) <= Rounding * d
             /\ dx * ex + dy * ey >= 0
        ELSE after = before

\* C13: the wall routine puts a body that is on or past the wall back along
\* the inward normal by the overlap (distance + radius - arena radius), so
\* that distance + radius is the arena's radius afterwards, and leaves any
\* other body as it was, position and velocity.
C13_WallCorrection ==
    [][(pc = "call" /\ pc' = "wall")
        => IF variant \in {"1.5", "2.1"}
           THEN \A i \in 1 .. 3 :
                    WallCorrected(Arena.x, Arena.y, Arena.radius,
                                  bodies[i].radius, bodies[i], bodies'[i])
           ELSE WallCorrected(center_x, center_y, ARENA_RADIUS, BALL_RADIUS,
                              ball1, ball1')]_vars

\* collide_wall of futbol 1.4 has put a ball that was 10 pixels past the
\* wall on it
C13_Witness ==
    /\ variant = "1.4"
    /\ pc = "wall"
    /\ ball1.x = center_x - 220 * PS
    /\ ball1.y = center_y

\* C14: the pair routine leaves a pair that is at least two radii apart
\* exactly as it was, and a second call right after a first one changes
\* nothing.
C14_Idempotent ==
    [][(pc \in {"call", "pair"} /\ pc' \in {"pair", "pair2"})
        => /\ Apart >= BALL_RADIUS + BALL_RADIUS
                => ball1' = ball1 /\ ball2' = ball2
           /\ pc = "pair" => ball1' = ball1 /\ ball2' = ball2]_vars

\* resolve_collisions of futbol 1.3 has been called twice on two balls that
\* were 59 pixels apart and are 60 pixels apart now, each half a pixel
\* from where it was
C14_Witness ==
    /\ variant = "1.3"
    /\ pc = "pair2"
    /\ ball1.x % PS = PS \div 2
    /\ ball1.y = ball2.y
    /\ ball2.x - ball1.x = 60 * PS

\* C15: the angle the goal check finds between a ball near the wall and the
\* goal zone is the short way round the circle, between 0 and pi: a zone at
\* 0.05 and a ball at -0.05 are 0.1 apart, and a zone and a ball whose
\* angles differ by a multiple of 2 pi are 0 apart
C15_Wraparound ==
    [][(pc = "call" /\ pc' = "goal" /\ NearWall(ball1))
        => /\ diff' = AngularDistance(ball1)
           /\ diff' >= 0
           /\ diff' <= Pi
           /\ (goal_angle = 500 /\ ball_ang(ball1) = -500) => diff' = 2 * 500
           /\ (ball_ang(ball1) - goal_angle) % TwoPi = 0 => diff' = 0]_vars

C15_Witness ==
    /\ pc = "goal"
    /\ goal_angle = 500
    /\ ball_ang(ball1) = -500
    /\ diff = 2 * 500

\* m |v|^2, twice the kinetic energy of a body of mass m, the velocity in
\* length units per frame
Energy(m, b) == m * (Div(b.vx, VPP) * Div(b.vx, VPP) + Div(b.vy, VPP) * Div(b.vy, VPP))

\* the same for the three bodies together
BodiesEnergy(bs) == Energy(bs[1].mass, bs[1]) + Energy(bs[2].mass, bs[2])
                    + Energy(bs[3].mass, bs[3])

\* what rounding may add to m |v|^2
EnergyRounding == PS * PS

\* C16: a wall routine never increases a body's kinetic energy, and a pair
\* routine never increases the kinetic energy of the bodies together
C16_EnergyNeverGrows ==
    [][/\ (pc = "call" /\ pc' = "wall" /\ bodies = <<>>)
            => Energy(1, ball1') <= Energy(1, ball1) + EnergyRounding
       /\ (pc = "call" /\ pc' = "wall" /\ bodies # <<>>)
            => \A i \in 1..Len(bodies) :
                   Energy(bodies[i].mass, bodies'[i])
                       <= Energy(bodies[i].mass, bodies[i]) + EnergyRounding
       /\ (pc \in {"call", "pair"} /\ pc' \in {"pair", "pair2"})
            => Energy(1, ball1') + Energy(1, ball2')
                   <= Energy(1, ball1) + Energy(1, ball2) + EnergyRounding
       /\ (pc = "call" /\ pc' = "pass")
            => BodiesEnergy(bodies') <= BodiesEnergy(bodies) + EnergyRounding]_vars

\* C17: every call of a wall routine or a pair routine completes, also for
\* two bodies at the same place and for a body at the arena's centre: no
\* call ends in a division by zero
C17_CallsComplete == [][pc = "call" => pc' # "crashed"]_vars

\* the match minute as the clock's state and the frame counter give it
MinuteNow ==
    IF state = "SECOND_HALF" THEN 45 + frame_counter \div FRAMES_PER_SIM_MINUTE
    ELSE frame_counter \div FRAMES_PER_SIM_MINUTE

\* C18: after the half checks of a frame of the first half the injury-time
\* flag is set exactly when the minute is 45 or more, after those of a frame
\* of the second half exactly when it is 90 or more, and so it stays as long
\* as the half lasts; whether the half ends in that frame depends on the
\* minute and the half's injury time alone, and the second half begins
\* whatever the flag
C18_InjuryTimeFlag ==
    /\ [][(pc = "timer" /\ state = "FIRST_HALF")
            => /\ display_added_time' <=> sim_minute' >= 45
               /\ state' # state <=> sim_minute' >= 45 + added_time_1]_vars
    /\ [][(pc = "timer" /\ state = "SECOND_HALF")
            => /\ display_added_time' <=> sim_minute' >= 90
               /\ state' # state <=> sim_minute' >= 90 + added_time_2]_vars
    /\ [](state = "FIRST_HALF" => (display_added_time <=> MinuteNow >= 45))
    /\ [](state = "SECOND_HALF" => (display_added_time <=> MinuteNow >= 90))
    /\ [][(pc = "trans" /\ state = "HALFTIME") => state' = "SECOND_HALF"]_vars

C18_Witness ==
    /\ pc = "physics"
    /\ state = "SECOND_HALF"
    /\ sim_minute = 90
    /\ display_added_time

EveryPair == <<<<1, 2>>, <<1, 3>>, <<2, 3>>>>

\* C20: a collision pass over three bodies examines every pair of them once,
\* in ascending order, the pair of the two players included
C20_EveryPairOnce == [][(pc = "call" /\ pc' = "pass") => checked' = EveryPair]_vars

\* the pair routine has been called for two overlapping balls and returned
PairResolved ==
    /\ pc = "call"
    /\ pc' = "pair"
    /\ Apart < BALL_RADIUS + BALL_RADIUS

\* how far ball "after" lies from ball "before"
Moved(before, after) == Hypot(after.x - before.x, after.y - before.y)

\* C21: a call of the pair routine for two overlapping balls, whatever their
\* velocities, moves each ball by half the overlap, the two in opposite
\* directions, so that the centres are two radii apart when it returns
C21_SymmetricSeparation ==
    [][PairResolved
        => /\ Abs(Hypot(ball2'.x - ball1'.x, ball2'.y - ball1'.y)
                  - (BALL_RADIUS + BALL_RADIUS)) <= Rounding
           /\ ball1'.x - ball1.x = -(ball2'.x - ball2.x)
           /\ ball1'.y - ball1.y = -(ball2'.y - ball2.y)
           /\ Abs(2 * Moved(ball1, ball1') - (BALL_RADIUS + BALL_RADIUS - Apart))
                  <= Rounding]_vars

\* vn = (v1 - v2) . n for n = (p2 - p1) / d, the centres not coinciding
NormalSpeed ==
    LET dx == ball2.x - ball1.x
        dy == ball2.y - ball1.y
    IN  Div((ball1.vx - ball2.vx) * Div(dx * NS, Hypot(dx, dy))
            + (ball1.vy - ball2.vy) * Div(dy * NS, Hypot(dx, dy)), NS)

\* the two balls have the velocities they had
SameVelocities ==
    /\ ball1'.vx = ball1.vx
    /\ ball1'.vy = ball1.vy
    /\ ball2'.vx = ball2.vx
    /\ ball2'.vy = ball2.vy

\* C22: resolve_collisions, called for two overlapping balls with vn > 0,
\* separates them and leaves both velocities as they were; the velocities
\* change only when vn <= 0, and they do change when vn < 0
C22_ImpulseSkip ==
    [][(PairResolved /\ variant \in {"1.3", "1.4"} /\ Apart > 0)
        => /\ NormalSpeed > 0
                => /\ SameVelocities
                   /\ Abs(Hypot(ball2'.x - ball1'.x, ball2'.y - ball1'.y)
                          - (BALL_RADIUS + BALL_RADIUS)) <= Rounding
           /\ ~SameVelocities => NormalSpeed <= 0
           /\ NormalSpeed < 0 => ~SameVelocities]_vars

C22_Witness ==
    /\ variant = "1.3"
    /\ pc = "pair"
    /\ ball1 = Ball(center_x + 97 * PS, center_y - 4 * PS, 5 * VS, 0)
    /\ ball2 = Ball(center_x + 133 * PS, center_y + 44 * PS, 0, 0)

\* m1 v1 + m2 v2 + m3 v3 of three bodies, as <<x, y>>
BodiesMomentum(bs) ==
    <<bs[1].mass * bs[1].vx + bs[2].mass * bs[2].vx + bs[3].mass * bs[3].vx,
      bs[1].mass * bs[1].vy + bs[2].mass * bs[2].vy + bs[3].mass * bs[3].vy>>

\* what rounding may add to a momentum or a velocity: 0.002 pixel per frame
VelocityRounding == VS \div 500

\* the unit vector from ball1 to ball2, the centres not coinciding
LineOfCentres ==
    LET dx == ball2.x - ball1.x
        dy == ball2.y - ball1.y
    IN  <<Div(dx * NS, Hypot(dx, dy)), Div(dy * NS, Hypot(dx, dy))>>

\* the component of the velocity <<vx, vy>> across the unit vector n
Across(vx, vy, n) == Div(vy * n[1] - vx * n[2], NS)

\* the factor the relative normal velocity keeps, as <<numerator, denominator>>
Restitution == IF variant = "1.2" THEN <<1, 1>> ELSE ELASTICITY

\* C23: a pair response keeps the momentum of the bodies together; where the
\* two balls of futbol 1.2, 1.3, 1.4 get an impulse, it keeps each ball's
\* velocity across the line of centres and turns the relative velocity along
\* that line into -elasticity times what it was
C23_ImpulseResult ==
    [][/\ (pc = "call" /\ pc' = "pass")
            => /\ Abs(BodiesMomentum(bodies')[1] - BodiesMomentum(bodies)[1])
                      <= VelocityRounding
               /\ Abs(BodiesMomentum(bodies')[2] - BodiesMomentum(bodies)[2])
                      <= VelocityRounding
       /\ (PairResolved /\ Apart > 0 /\ ~SameVelocities)
            => /\ ball1'.vx + ball2'.vx = ball1.vx + ball2.vx
               /\ ball1'.vy + ball2'.vy = ball1.vy + ball2.vy
               /\ Abs(Across(ball1'.vx, ball1'.vy, LineOfCentres)
                      - Across(ball1.vx, ball1.vy, LineOfCentres)) <= VelocityRounding
               /\ Abs(Across(ball2'.vx, ball2'.vy, LineOfCentres)
                      - Across(ball2.vx, ball2.vy, LineOfCentres)) <= VelocityRounding
               /\ Abs(Div((ball1'.vx - ball2'.vx) * LineOfCentres[1]
                          + (ball1'.vy - ball2'.vy) * LineOfCentres[2], NS)
                      + Div(Restitution[1] * NormalSpeed, Restitution[2]))
                      <= VelocityRounding]_vars

\* C24: when the pair routine returns for two balls that overlapped, the
\* balls do not move toward each other: the velocity of ball2 seen from
\* ball1 has no component against the line from ball1 to ball2
C24_NoReapproach ==
    [][(PairResolved /\ Apart > 0)
        => LET dx == ball2'.x - ball1'.x
               dy == ball2'.y - ball1'.y
               nx == Div(dx * NS, Hypot(dx, dy))
               ny == Div(dy * NS, Hypot(dx, dy))
           IN  Div((ball2'.vx - ball1'.vx) * nx + (ball2'.vy - ball1'.vy) * ny, NS)
                   >= -VelocityRounding]_vars

\* C25: once the clock is in HALFTIME, a loop iteration ends with the clock in
\* HALFTIME: the drawing code, which runs when the logic of an iteration is
\* done, gets to see that state
C25_HalfTimeSeen == (state = "HALFTIME") ~> (pc = "timer" /\ state = "HALFTIME")

\* n solver passes, one after the other; each pass gives the two balls the
\* next begins with
RECURSIVE Passes(_, _)
Passes(bb, n) ==
    LET after == SolverPass(bb)
    IN  IF n = 0 THEN bb
        ELSE IF Len(after) = 2 THEN Passes(after, n - 1)
        ELSE after

\* how often the body of "while diff > math.pi" runs from the value d
RECURSIVE WrapCount(_)
WrapCount(d) == IF d > Pi THEN 1 + WrapCount(Abs(d - TwoPi)) ELSE 0

\* how many points get_random_spawn draws from the generator state r
RECURSIVE SpawnDraws(_)
SpawnDraws(r) ==
    LET r1 == NextRng(r)
        r2 == NextRng(r1)
        dx == (Below(r1, 301) - 150) * PS
        dy == (Below(r2, 251) - 200) * PS
    IN  IF Hypot(dx, dy) < ARENA_RADIUS - BALL_RADIUS - 10 * PS
        THEN 1
        ELSE 1 + SpawnDraws(r2)

\* the most points a call of get_random_spawn may need
MaxDraws == 2 * 2 * 2

\* C26: every iteration of the main loop comes to its end; futbol 1.4's
\* solver makes its eight passes, no more and no fewer; the loop that
\* normalises diff runs at most once and leaves diff at most pi; and
\* get_random_spawn returns after a few draws, from each of the generator's
\* states of SpawnSeeds, from the state the run is in and from the state its
\* first call leaves
C26_TickTerminates ==
    /\ (pc # "timer") ~> (pc = "timer")
    /\ \A r \in SpawnSeeds : SpawnDraws(r) <= MaxDraws
    /\ [][(variant = "1.4" /\ pc = "physics")
            => <<ball1', ball2'>> = Passes(<<move(ball1), move(ball2)>>, 8)]_vars
    /\ [][(pc \in {"goal1", "goal2"}
            /\ NearWall(IF pc = "goal1" THEN ball1 ELSE ball2))
            => LET b == IF pc = "goal1" THEN ball1 ELSE ball2
                   d == IF variant = "1.2" THEN Abs(ball_ang(b) - goal_angle)
                        ELSE Abs((ball_ang(b) % TwoPi) - (goal_angle % TwoPi))
               IN  WrapCount(d) <= 1 /\ diff' <= Pi]_vars
    /\ [](variant # "1.2"
            => /\ SpawnDraws(rng) <= MaxDraws
               /\ SpawnDraws(get_random_spawn(rng).rng) <= MaxDraws)

C26_Witness ==
    /\ variant = "1.4"
    /\ pc = "timer"
    /\ frame_counter > 0
    /\ score1 + score2 >= 1
    /\ diff > 0

\* ball b lies inside the arena with the margin get_random_spawn asks for
InsideMargin(b) ==
    Hypot(b.x - center_x, b.y - center_y) < ARENA_RADIUS - BALL_RADIUS - 10 * PS

\* C27: every position returned by get_random_spawn lies at a distance below
\* arenaRadius - BALL_RADIUS - 10 from the centre, so a ball just respawned
\* fails the goal check's band test dist > arenaRadius - radius - 10 and the
\* goal check finds no goal for it
C27_RespawnOutsideBand ==
    pc = "spawn" => /\ InsideMargin(ball1) /\ InsideMargin(ball2)
                    /\ ~NearWall(ball1) /\ ~NearWall(ball2)
                    /\ ~IsGoal(ball1) /\ ~IsGoal(ball2)

\* a respawn of futbol 1.3 in which get_random_spawn turned a point down
\* before it returned one
C27_Witness ==
    /\ variant = "1.3"
    /\ pc = "spawn"
    /\ \E r \in SpawnSeeds :
          /\ SpawnDraws(r) > 1
          /\ rng = get_random_spawn(get_random_spawn(r).rng).rng
\* the goal check of futbol 1.4 records a goal for ball i
GoalRecorded(i) ==
    /\ variant = "1.4"
    /\ pc = IF i = 1 THEN "goal1" ELSE "goal2"
    /\ frame_goals' > frame_goals

\* a velocity component of magnitude between 0.8 * SPEED and 1.2 * SPEED
Redrawn(v) == 4 * SPEED <= 5 * Abs(v) /\ 5 * Abs(v) <= 6 * SPEED

\* C28: a goal of futbol 1.4 puts the scorer at the arena's centre and leaves
\* the other ball where it is; each of the four velocity components is drawn
\* anew with a magnitude between 0.8 * SPEED and 1.2 * SPEED
C28_ScorerOnlyReset ==
    [][\A i \in 1 .. 2 : GoalRecorded(i) =>
          LET scorer == IF i = 1 THEN ball1' ELSE ball2'
              before == IF i = 1 THEN ball2 ELSE ball1
              after == IF i = 1 THEN ball2' ELSE ball1'
          IN  /\ scorer.x = center_x /\ scorer.y = center_y
              /\ after.x = before.x /\ after.y = before.y
              /\ \A v \in {ball1'.vx, ball1'.vy, ball2'.vx, ball2'.vy} :
                    Redrawn(v)]_vars

\* the second ball has scored while the first, away from the centre, stayed
\* where it was
C28_Witness ==
    /\ variant = "1.4"
    /\ pc = "trans"
    /\ frame_goals = 1
    /\ score2 >= 1
    /\ <<ball2.x, ball2.y>> = <<center_x, center_y>>
    /\ <<ball1.x, ball1.y>> # <<center_x, center_y>>

\* a step of futbol 2.1's loop in which check_goal records a goal
GoalStep == variant = "2.1" /\ goal_timer = 0 /\ goal_timer' > 0

\* the three bodies as reset_positions makes them, whatever their velocities
AtKickOff(bs) ==
    /\ Len(bs) = 3
    /\ <<bs[1].x, bs[1].y>> = <<Arena.x, Arena.y>>
    /\ <<bs[2].x, bs[2].y>> = <<Arena.x, Arena.y - 100 * PS>>
    /\ <<bs[3].x, bs[3].y>> = <<Arena.x, Arena.y + 100 * PS>>
    /\ <<bs[1].radius, bs[2].radius, bs[3].radius>> = <<15 * PS, 30 * PS, 30 * PS>>
    /\ <<bs[1].mass, bs[2].mass, bs[3].mass>> = <<1, 5, 5>>

\* C29: a goal of futbol 2.1 adds one to exactly one score, team 2's for a
\* ball in the top half and team 1's for a ball in the bottom half, makes the
\* three bodies anew at their kick-off places and sets the pause to 60; a
\* score changes on no other step; while the pause lasts an iteration takes
\* one off it and leaves the bodies, the scores and match_time alone; an
\* iteration without pause moves the ball and adds one to match_time
C29_GoalPause ==
    /\ [][GoalStep =>
            LET ball == BeforeGoalCheck(bodies).bs[1]
            IN  /\ ball.y < Arena.y =>
                      /\ score_team2' = score_team2 + 1
                      /\ score_team1' = score_team1
                /\ ball.y > Arena.y =>
                      /\ score_team1' = score_team1 + 1
                      /\ score_team2' = score_team2
                /\ ball.y # Arena.y
                /\ AtKickOff(bodies')
                /\ goal_timer' = 60]_vars
    /\ [][variant = "2.1" /\ <<score_team1, score_team2>>' # <<score_team1, score_team2>>
            => GoalStep]_vars
    /\ [][(variant = "2.1" /\ goal_timer > 0) =>
            /\ goal_timer' = goal_timer - 1
            /\ UNCHANGED <<bodies, score_team1, score_team2, match_time>>]_vars
    /\ [][(variant = "2.1" /\ goal_timer = 0 /\ pc' # "crashed") =>
            /\ match_time' = match_time + 1
            /\ ~GoalStep => <<bodies[1].x, bodies[1].y>>' # <<bodies[1].x, bodies[1].y>>]_vars

\* play has resumed after the pause of the match's first goal
C29_Witness ==
    /\ variant = "2.1"
    /\ pc = "run"
    /\ score_team1 + score_team2 = 1
    /\ goal_timer = 0
    /\ ~AtKickOff(bodies)

\* the caged ball lies fully inside the cage
Caged ==
    /\ cage_rect.left + CAGED_RADIUS <= ball_x
    /\ ball_x <= cage_rect.right - CAGED_RADIUS
    /\ cage_rect.top + CAGED_RADIUS <= ball_y
    /\ ball_y <= cage_rect.bottom - CAGED_RADIUS

\* the place the frame's "Physics Logic" takes the caged ball to lies beyond
\* a side wall; beyond the floor or the ceiling
BeyondSide ==
    \/ ball_x + Div(vel_x, VPP) + CAGED_RADIUS > cage_rect.right
    \/ ball_x + Div(vel_x, VPP) - CAGED_RADIUS < cage_rect.left

BeyondEnd ==
    \/ ball_y + Div(vel_y + CAGED_GRAVITY, VPP) + CAGED_RADIUS > cage_rect.bottom
    \/ ball_y + Div(vel_y + CAGED_GRAVITY, VPP) - CAGED_RADIUS < cage_rect.top

\* C30: at the end of every frame the ball of bouncing_ball.py lies fully
\* inside the cage; a bounce off a side wall turns vel_x into -0.95 vel_x
\* and leaves the vertical velocity what gravity made it, a bounce off the
\* floor or the ceiling turns the vertical velocity into -0.95 times itself
\* and leaves vel_x; without a bounce the component is not touched
C30_CageContainment ==
    /\ [](variant = "bouncing_ball" => Caged)
    /\ [][variant = "bouncing_ball" =>
            /\ vel_x' = IF BeyondSide THEN Div(-95 * vel_x, 100) ELSE vel_x
            /\ vel_y' = IF BeyondEnd THEN Div(-95 * (vel_y + CAGED_GRAVITY), 100)
                        ELSE vel_y + CAGED_GRAVITY]_vars

\* the ball has just bounced off the right wall, and off nothing else
C30_Witness ==
    /\ variant = "bouncing_ball"
    /\ frames > 0
    /\ ball_x = cage_rect.right - CAGED_RADIUS
    /\ vel_x < 0
    /\ ball_y < cage_rect.bottom - CAGED_RADIUS

====
